---- MODULE Spec2Model ----
(***************************************************************************)
(* Model of the API's rate-limit plugin and of the namespaced cache        *)
(* wrapper (createCache) it is built on.                                   *)
(*                                                                         *)
(* Time is a millisecond clock `clock` that Tick advances between any two  *)
(* steps: every `await`/`yield*` of the source is a point where other      *)
(* requests run and time passes.  The Keyv/Redis store may fail on every   *)
(* call (the promise rejects); the wrapper's catch handlers decide what    *)
(* the caller sees.                                                        *)
(***************************************************************************)
EXTENDS Integers, Sequences, FiniteSets, TLC

\* ------------------------------------------------------------------ bounds
MaxTime == 2          \* SpecRL: the clock runs 0..MaxTime
MaxRequests == 3      \* SpecRL: requests started in one behaviour
SeqMaxTime == 5       \* SpecRLSeq: the clock runs 0..SeqMaxTime
SeqMaxRequests == 5   \* SpecRLSeq: requests started in one behaviour
ConfigMax == 2        \* config.max of rateLimitPlugin (scaled down)
ConfigWindow == 2     \* config.window of rateLimitPlugin, in ms (scaled down)

CacheMaxTime == 3     \* SpecCache: the clock runs 0..CacheMaxTime
MaxTtl == 2           \* SpecCache: ttl arguments range over 0..MaxTtl (0: none)

msPerSecond == 1000   \* the divisor of Retry-After

Procs == {"r1", "r2"}             \* request slots handled concurrently
Keys == {"k1", "k2"}              \* client keys / cache keys
RateLimitNs == "rate-limit"
Namespaces == {RateLimitNs, "auth-guard"}
CacheKeys == {"k1", "k2"}         \* keys used through the cache wrapper
Callers == {"g1"}                 \* getOrSet calls run one after another

\* ------------------------------------------------------------ JS values
Undefined == [undefined |-> TRUE]
Null == [null |-> TRUE]
None == [_tag |-> "None"]
Some(v) == [_tag |-> "Some", value |-> v]

\* ------------------------------------------------------- Effect values
Success(v) == [exit |-> "Success", value |-> v]
Failure(e) == [exit |-> "Failure", error |-> e]
StoreError == [error |-> "store"]

\* Effect.tryPromise: a resolved promise succeeds with its value, a rejected
\* one fails with what `catch` returns (the error itself).
tryPromise(ok, v) == IF ok THEN Success(v) ELSE Failure(StoreError)

\* Effect.orElseSucceed: a failure becomes a success with the fallback.
orElseSucceedMutant(eff, fallback) == eff
orElseSucceed(eff, fallback) ==
    IF eff.exit = "Failure" THEN Success(fallback) ELSE eff

\* ------------------------------------------------------ the Keyv store
\* The store maps <<namespace, key>> to [value, ttl, expires]; an entry
\* written with a ttl is gone once ttl milliseconds have passed.
EmptyStore == << >>

AliveMutant(e, t) == TRUE
Alive(e, t) == (~e.ttl) \/ t < e.expires

KeyvHas(st, ns, key, t) ==
    /\ <<ns, key>> \in DOMAIN st
    /\ Alive(st[<<ns, key>>], t)

KeyvGet(st, ns, key, t) ==
    IF KeyvHas(st, ns, key, t) THEN st[<<ns, key>>].value ELSE Undefined

\* ttl = 0 stands for "no ttl" (Keyv maps 0 to undefined).
KeyvSet(st, ns, key, v, ttl, t) ==
    (<<ns, key>> :> [value |-> v, ttl |-> (ttl > 0), expires |-> t + ttl]) @@ st

KeyvDelete(st, ns, key) ==
    [sk \in DOMAIN st \ {<<ns, key>>} |-> st[sk]]

KeyvClear(st, ns) ==
    [sk \in {x \in DOMAIN st : x[1] # ns} |-> st[sk]]

\* ------------------------------------------------- createCache().get/set
\* get: tryPromise(cache.get) |> map(undefined -> None) |> orElseSucceed(None)
cacheGet(st, ns, key, t, ok) ==
    LET raw == tryPromise(ok, KeyvGet(st, ns, key, t))
        mapped == IF raw.exit = "Success"
                  THEN Success(IF raw.value # Undefined
                               THEN Some(raw.value) ELSE None)
                  ELSE raw
    IN  orElseSucceed(mapped, None)

\* set: tryPromise(cache.set; true) |> orElseSucceed(false)
cacheSet(ok) == orElseSucceed(tryPromise(ok, TRUE), FALSE)

\* the store after a set whose promise resolved (ok) or rejected
StoreAfterSetMutant(st, ns, key, v, ttl, t, ok) ==
    IF ok THEN KeyvSet(st, ns, key, v, 0, t) ELSE st
StoreAfterSet(st, ns, key, v, ttl, t, ok) ==
    IF ok THEN KeyvSet(st, ns, key, v, ttl, t) ELSE st

\* delete: tryPromise(cache.delete(keys)) |> orElseSucceed(false); Keyv
\* answers whether a key was there to delete
cacheDeleteMutant(st, ns, keys, t, ok) == Success(TRUE)
cacheDelete(st, ns, keys, t, ok) ==
    orElseSucceed(tryPromise(ok, \E key \in keys : KeyvHas(st, ns, key, t)), FALSE)

StoreAfterDeleteMutant(st, ns, keys, ok) == st
StoreAfterDelete(st, ns, keys, ok) ==
    IF ok THEN [sk \in DOMAIN st \ ({ns} \X keys) |-> st[sk]] ELSE st

\* clear: tryPromise(cache.clear(); true) |> orElseSucceed(false)
cacheClear(ok) == orElseSucceed(tryPromise(ok, TRUE), FALSE)

StoreAfterClear(st, ns, ok) == IF ok THEN KeyvClear(st, ns) ELSE st

\* getOrSet, its read: tryPromise(cache.get) |> orElseSucceed(undefined)
getOrSetReadMutant(st, ns, key, t, ok) ==
    tryPromise(ok, KeyvGet(st, ns, key, t))
getOrSetRead(st, ns, key, t, ok) ==
    orElseSucceed(tryPromise(ok, KeyvGet(st, ns, key, t)), Undefined)

\* `cached !== undefined`
IsHitMutant(cached) == cached # Undefined /\ cached # Null
IsHit(cached) == cached # Undefined

\* getOrSet, its write: tryPromise(cache.set; true) |> orElseSucceed(false)
getOrSetWrite(ok) == orElseSucceed(tryPromise(ok, TRUE), FALSE)

\* what the compute effect of a caller can yield, and its failure E
V1 == [v |-> 1]
ComputeResults == {V1, Null, Undefined}
ComputeError == [error |-> "compute"]

\* the entry under <<ns, key>>, expired or not, or Undefined
RawEntry(st, ns, key) ==
    IF <<ns, key>> \in DOMAIN st THEN st[<<ns, key>>] ELSE Undefined

\* ------------------------------------------------------------ the state
VARIABLES
    clock,      \* Date.now(), in ms
    store,      \* the shared Keyv/Redis store
    req,        \* per request slot: position and locals of the onBeforeHandle hook
    nreq,       \* requests started so far
    windows,    \* per resetAt: requests counted (c) and admitted (n) with it (history)
    hist,       \* the reference fixed-window limiter run beside the code (history)
    gos,        \* per caller: position and locals of a getOrSet call
    last,       \* the last get/set/delete/clear call and what it yielded
    warm        \* per store key: the entry a getOrSet last wrote, while no other
                \* write, delete or clear has touched the key since (history)

rlVars == <<req, nreq, windows, hist>>
cacheVars == <<gos, last, warm>>
\* the application's database and the callers around the cache
VARIABLES
    db,         \* prisma: per user id, the row of the user table, if any
    retry,      \* the effect run under Effect.retry(API_RETRY_POLICY): position and attempts
    wr,         \* the repository function that updates a row and invalidates the cache
    http,       \* one HTTP client: its abortControllers map and its requests
    pg,         \* one paginated listing: its query, skip and metadata
    hook,       \* the back-office guard: the request in the before-hook
    px,         \* the client application: the request at the proxy
    rf,         \* one axios instance with its auth interceptors
    ip          \* the request whose client address is being derived

appVars == <<db, retry, wr, http, pg, hook, px, rf, ip>>
notDb == <<retry, wr, http, pg, hook, px, rf, ip>>          \* the application state but db
notRetry == <<db, wr, http, pg, hook, px, rf, ip>>          \* the application state but retry
notDbWr == <<retry, http, pg, hook, px, rf, ip>>        \* the application state but db and wr
notHttp == <<db, retry, wr, pg, hook, px, rf, ip>>       \* the application state but http
notPg == <<db, retry, wr, http, hook, px, rf, ip>>     \* the application state but pg
notHook == <<db, retry, wr, http, pg, px, rf, ip>>   \* the application state but hook
notPx == <<db, retry, wr, http, pg, hook, rf, ip>>   \* the application state but px
notRf == <<db, retry, wr, http, pg, hook, px, ip>>   \* the application state but rf
notIp == <<db, retry, wr, http, pg, hook, px, rf>>   \* the application state but ip
vars == <<clock, store, rlVars, cacheVars, appVars>>

\* ------------------------------------------------- incrementRateLimit
\* getRateLimitEntry: Some(v) -> v, None -> null
getRateLimitEntry(cached) ==
    IF cached._tag = "Some" THEN cached.value ELSE Null

\* `existing && existing.resetAt > now`
IsIncrementMutant(existing, now) == existing # Null /\ existing.resetAt >= now
IsIncrement(existing, now) == existing # Null /\ existing.resetAt > now

updatedEntrySkips(existing) ==
    [count |-> existing.count + 2, resetAt |-> existing.resetAt]
updatedEntryMutant(existing) ==
    [count |-> existing.count, resetAt |-> existing.resetAt]
updatedEntry(existing) ==
    [count |-> existing.count + 1, resetAt |-> existing.resetAt]

freshEntryMutant(now, windowMs) == [count |-> 1, resetAt |-> windowMs]
freshEntry(now, windowMs) == [count |-> 1, resetAt |-> now + windowMs]

\* the record incrementRateLimit writes and returns
NextEntry(existing, now, windowMs) ==
    IF IsIncrement(existing, now)
    THEN updatedEntry(existing)
    ELSE freshEntry(now, windowMs)

\* the ttl it passes to rateLimitCache.set
NextTtlMutant(existing, now, windowMs) == windowMs
NextTtl(existing, now, windowMs) ==
    IF IsIncrement(existing, now) THEN existing.resetAt - now ELSE windowMs

\* ------------------------------------------------- rateLimitPlugin hook
CeilDiv(a, b) == -((-a) \div b)

Max0Mutant(x) == x
Max0(x) == IF x > 0 THEN x ELSE 0

ExceedsMutant(result) == result.count >= ConfigMax
Exceeds(result) == result.count > ConfigMax

\* what the hook leaves in `set` and returns for `result`, deciding at time t
Respond(result, t) ==
    LET headers == [limit |-> ConfigMax,
                    remaining |-> Max0(ConfigMax - result.count),
                    reset |-> result.resetAt]
    IN  IF Exceeds(result)
        THEN [handled |-> FALSE, threw |-> FALSE, status |-> 429,
              headers |-> headers,
              retryAfter |-> CeilDiv(result.resetAt - t, msPerSecond)]
        ELSE [handled |-> TRUE, threw |-> FALSE, headers |-> headers]

\* config.skip answered true: the hook returns before counting
Skipped == [handled |-> TRUE, threw |-> FALSE, skipped |-> TRUE]

\* runPromise rejected: the hook throws
Threw == [handled |-> FALSE, threw |-> TRUE]

IdleReq ==
    [pc |-> "idle", key |-> "", now |-> 0, existing |-> Null, result |-> Null,
     readOk |-> TRUE, writeOk |-> TRUE, resp |-> Null,
     held |-> Undefined, stored |-> Undefined, dirty |-> FALSE]

InFlight(p) == req[p].pc \in {"read", "write", "decide"}

\* ------------------------------------------------- the hook, step by step
\* Every step below is one synchronous stretch of the hook: the steps of
\* different requests interleave at the awaits between them.

Tick ==
    /\ clock' = clock + 1
    /\ UNCHANGED store

\* config.skip returned true: the hook returns at once
RLSkip(p) ==
    /\ req[p].pc = "idle"
    /\ nreq' = nreq + 1
    /\ req' = [req EXCEPT ![p] = [IdleReq EXCEPT !.pc = "done", !.resp = Skipped]]
    /\ UNCHANGED <<clock, store>>

\* the hook starts incrementRateLimit(key, config.window): now = Date.now()
RLBegin(p, k) ==
    /\ req[p].pc = "idle"
    /\ nreq' = nreq + 1
    /\ req' = [req EXCEPT ![p] =
                 [IdleReq EXCEPT !.pc = "read", !.key = k, !.now = clock]]
    /\ UNCHANGED <<clock, store>>

\* existing = yield* getRateLimitEntry(key)
RLRead(p, ok) ==
    /\ req[p].pc = "read"
    /\ LET r == req[p]
           eff == cacheGet(store, RateLimitNs, r.key, clock, ok)
       IN  req' = [req EXCEPT ![p] =
                 IF eff.exit = "Failure"
                 THEN [r EXCEPT !.pc = "done", !.readOk = ok, !.resp = Threw]
                 ELSE [r EXCEPT !.pc = "write", !.readOk = ok,
                                !.existing = getRateLimitEntry(eff.value),
                                !.held = KeyvGet(store, RateLimitNs, r.key, clock)]]
    /\ UNCHANGED <<clock, store, nreq>>

\* yield* rateLimitCache.set(key, entry, ttl); return entry
RLWrite(p, ok) ==
    /\ req[p].pc = "write"
    /\ LET r == req[p]
           entry == NextEntry(r.existing, r.now, ConfigWindow)
           ttl == NextTtl(r.existing, r.now, ConfigWindow)
           eff == cacheSet(ok)
       IN  /\ store' = StoreAfterSet(store, RateLimitNs, r.key, entry, ttl, clock, ok)
           /\ req' = [q \in Procs |->
                 IF q = p
                 THEN IF eff.exit = "Failure"
                      THEN [r EXCEPT !.pc = "done", !.writeOk = ok, !.resp = Threw]
                      ELSE [r EXCEPT !.pc = "decide", !.writeOk = ok,
                                     !.result = entry,
                                     !.stored = KeyvGet(store', RateLimitNs, r.key, clock)]
                 ELSE IF ok /\ req[q].pc = "write" /\ req[q].key = r.key
                      THEN [req[q] EXCEPT !.dirty = TRUE]
                      ELSE req[q]]
    /\ UNCHANGED <<clock, nreq>>

\* the headers, and 429 when result.count > config.max
RLDecide(p) ==
    /\ req[p].pc = "decide"
    /\ LET r == req[p]
           resp == Respond(r.result, clock)
       IN  req' = [req EXCEPT ![p] = [r EXCEPT !.pc = "done", !.resp = resp]]
    /\ UNCHANGED <<clock, store, nreq>>

\* the response has been sent; the slot serves the next request
RLDone(p) ==
    /\ req[p].pc = "done"
    /\ req' = [req EXCEPT ![p] = IdleReq]
    /\ UNCHANGED <<clock, store, nreq>>

\* ------------------------------------ the reference fixed-window limiter
\* History kept beside the code when requests are processed one at a time.
\* Per key: the end of the current time window and the number of requests
\* that arrived in it (winEnd, seq), and, for the window of the record the
\* code currently keeps, the requests counted and admitted (eSeen, eAdmit).
\* cur holds, for the request in flight, its number in the time window, the
\* end of that window and its number in the record's window.  `straddled`
\* records that a record expired between a request's Date.now() and its read.
NoWindow == [winEnd |-> 0, seq |-> 0, eSeen |-> 0, eAdmit |-> 0]

NoCur == [iseq |-> 0, iend |-> 0, prevEnd |-> 0, epos |-> 0]

InitHist ==
    [straddled |-> FALSE, cur |-> NoCur, win |-> [k \in Keys |-> NoWindow]]

\* a request arrives at time t
IdealArrive(w, t) ==
    IF t < w.winEnd
    THEN [w EXCEPT !.seq = @ + 1]
    ELSE [w EXCEPT !.winEnd = t + ConfigWindow, !.seq = 1]

\* the record of `key` was in the store when the request took Date.now()
\* (arrived), has resetAt > arrived, and is gone at time t
Straddles(st, key, arrived, t) ==
    /\ KeyvHas(st, RateLimitNs, key, arrived)
    /\ ~KeyvHas(st, RateLimitNs, key, t)
    /\ st[<<RateLimitNs, key>>].value.resetAt > arrived

\* a getOrSet caller at rest, and no get/set/delete/clear made yet
IdleCall ==
    [pc |-> "idle", ns |-> "", key |-> "", ttl |-> 0,
     value |-> Undefined, runs |-> 0, readOk |-> TRUE, computeOk |-> TRUE,
     writeOk |-> TRUE, out |-> Null,
     held |-> Undefined, sawWarm |-> FALSE, stored |-> Undefined]

NoCall == [op |-> "none"]

\* the resetAt values a record can carry
ResetAts == 0 .. (MaxTime + ConfigWindow)

Quiet == \A q \in Procs : ~InFlight(q)

\* ------------------------------------------------- the user table
Users == {"u1"}

Teacher == [role |-> "TEACHER"]
Student == [role |-> "STUDENT"]
USER_ROLE == {Teacher, Student}

NoRow == [exists |-> FALSE]

\* ------------------------------------------------- Effect.retry
IdleRetry ==
    [pc |-> "idle", calls |-> 0, attempts |-> 0, errors |-> << >>,
     delay |-> 0, slept |-> 0, out |-> Null]

\* ------------------------------------------------- the write pattern
\* update the database, then delete the cache key, then clear the namespace
IdleWriter ==
    [pc |-> "idle", n |-> 0, deleteOk |-> FALSE, removed |-> FALSE,
     late |-> FALSE, overlap |-> FALSE]

\* ------------------------------------------------- the HTTP clients
HttpSlots == {"h1", "h2"}         \* requests of one client under way at once

\* got: what the axios call settled with; out: what the caller is given
IdleHttpReq == [pc |-> "idle", aborted |-> "no", got |-> Null, out |-> Null]

\* kind: which factory made the client; reg: the ids in abortControllers
IdleHttp ==
    [kind |-> "none", reg |-> {}, req |-> [r \in HttpSlots |-> IdleHttpReq]]

\* ------------------------------------------------------- pagination
IdlePage == [pc |-> "idle", page |-> 1, limit |-> 1, total |-> 0,
             skip |-> Null, out |-> Null]

\* ------------------------------------------------- the before-hook
\* one request in enforceTeacherRole; reads: the roles the findFirst of
\* getUserRole has returned so far
IdleHook ==
    [pc |-> "idle", path |-> "", header |-> "none", identifier |-> "",
     out |-> Null, roleNow |-> Null, dbOk |-> TRUE, cacheOk |-> TRUE,
     queried |-> FALSE, reads |-> {}]

\* ------------------------------------------------- the Next.js proxy
\* one page request of the client application
IdleProxy ==
    [pc |-> "idle", pathname |-> << >>, search |-> << >>, cookies |-> {},
     ran |-> FALSE, resp |-> Null, followed |-> FALSE]

\* ------------------------------------------------- the auth interceptors
RfSlots == {"a1", "a2"}           \* requests of one axios instance under way

IdleRfReq ==
    [pc |-> "idle", url |-> "", isRetry |-> FALSE, sends |-> 0,
     waitsOn |-> 0, out |-> Null]

\* marker: refreshPromise is null, a pending promise or a rejected one;
\* refresh: the async function behind it; inflight: refresh POSTs under way
IdleRf ==
    [kind |-> "none", getCookies |-> "none", marker |-> "null",
     refresh |-> "none", id |-> 0, inflight |-> 0, nsent |-> 0,
     req |-> [r \in RfSlots |-> IdleRfReq]]

\* ------------------------------------------------- the client address
\* an address is [kind, a]: "v4" with four octets, "v6" with eight groups,
\* "short" for ::1 (a = <<1>>) and :: (a = <<0>>), "mapped" for ::ffff:
\* followed by a v4 address, "empty" for the empty string
EmptyText == [kind |-> "empty", a |-> << >>]

\* the request at clientIpPlugin: its headers, the socket address the server
\* reports, what extractClientIpAddress returned and the rate-limit key;
\* keys: <<socket address, headers, rate-limit key>> of the requests so far
IdleIp ==
    [pc |-> "idle", headers |-> << >>, socket |-> Null, out |-> Null,
     key |-> Null, keys |-> {}]

InitApp ==
    /\ db = [u \in Users |-> NoRow]
    /\ retry = IdleRetry
    /\ wr = IdleWriter
    /\ http = IdleHttp
    /\ pg = IdlePage
    /\ hook = IdleHook
    /\ px = IdleProxy
    /\ rf = IdleRf
    /\ ip = IdleIp

InitRL ==
    /\ clock = 0
    /\ store = EmptyStore
    /\ req = [p \in Procs |-> IdleReq]
    /\ nreq = 0
    /\ windows = [x \in ResetAts |-> [c |-> 0, n |-> 0]]
    /\ hist = InitHist
    /\ gos = [g \in Callers |-> IdleCall]
    /\ last = NoCall
    /\ warm = [sk \in Namespaces \X CacheKeys |-> Undefined]
    /\ InitApp

\* ------------------- SpecRL: concurrent requests of one key, failing store
\* `windows` counts, per resetAt, the requests that were returned a record
\* with it and those of them that reached the handler.
RLTick == clock < MaxTime /\ Tick /\ UNCHANGED <<rlVars, cacheVars, appVars>>

RLSkipC(p) == nreq < MaxRequests /\ RLSkip(p) /\ UNCHANGED <<windows, hist, cacheVars, appVars>>

RLBeginC(p) == nreq < MaxRequests /\ RLBegin(p, "k1") /\ UNCHANGED <<windows, hist, cacheVars, appVars>>

RLReadC(p, ok) == RLRead(p, ok) /\ UNCHANGED <<windows, hist, cacheVars, appVars>>

RLWriteC(p, ok) ==
    /\ RLWrite(p, ok)
    /\ windows' = IF req'[p].pc = "decide"
                  THEN [windows EXCEPT ![req'[p].result.resetAt].c = @ + 1]
                  ELSE windows
    /\ UNCHANGED <<hist, cacheVars, appVars>>

RLDecideC(p) ==
    /\ RLDecide(p)
    /\ windows' = IF req'[p].resp.handled
                  THEN [windows EXCEPT ![req[p].result.resetAt].n = @ + 1]
                  ELSE windows
    /\ UNCHANGED <<hist, cacheVars, appVars>>

RLDoneC(p) == RLDone(p) /\ UNCHANGED <<windows, hist, cacheVars, appVars>>

NextRL ==
    \/ RLTick
    \/ \E p \in Procs : RLSkipC(p)
    \/ \E p \in Procs : RLBeginC(p)
    \/ \E p \in Procs, ok \in BOOLEAN : RLReadC(p, ok)
    \/ \E p \in Procs, ok \in BOOLEAN : RLWriteC(p, ok)
    \/ \E p \in Procs : RLDecideC(p)
    \/ \E p \in Procs : RLDoneC(p)

SpecRL == InitRL /\ [][NextRL]_vars

\* --------- SpecRLSeq: requests processed one at a time, working store
SeqTick == clock < SeqMaxTime /\ Tick /\ UNCHANGED <<rlVars, cacheVars, appVars>>

SeqSkip(p) ==
    /\ Quiet
    /\ nreq < SeqMaxRequests
    /\ RLSkip(p)
    /\ UNCHANGED <<windows, hist, cacheVars, appVars>>

SeqBegin(p, k) ==
    /\ Quiet
    /\ nreq < SeqMaxRequests
    /\ RLBegin(p, k)
    /\ LET w == IdealArrive(hist.win[k], clock)
       IN  hist' = [hist EXCEPT !.win[k] = w,
                                !.cur = [iseq |-> w.seq, iend |-> w.winEnd,
                                         prevEnd |-> hist.win[k].winEnd,
                                         epos |-> 0]]
    /\ UNCHANGED <<windows, cacheVars, appVars>>

SeqRead(p) ==
    /\ RLRead(p, TRUE)
    /\ hist' = IF Straddles(store, req[p].key, req[p].now, clock)
               THEN [hist EXCEPT !.straddled = TRUE]
               ELSE hist
    /\ UNCHANGED <<windows, cacheVars, appVars>>

SeqWrite(p) ==
    /\ RLWrite(p, TRUE)
    /\ LET r == req[p]
           w == hist.win[r.key]
           seen == IF IsIncrement(r.existing, r.now) THEN w.eSeen + 1 ELSE 1
       IN  hist' = [hist EXCEPT !.cur.epos = seen,
                                !.win[r.key] =
                                   IF IsIncrement(r.existing, r.now)
                                   THEN [w EXCEPT !.eSeen = seen]
                                   ELSE [w EXCEPT !.eSeen = 1, !.eAdmit = 0]]
    /\ UNCHANGED <<windows, cacheVars, appVars>>

SeqDecide(p) ==
    /\ RLDecide(p)
    /\ hist' = IF req'[p].resp.handled
               THEN [hist EXCEPT !.win[req[p].key].eAdmit = @ + 1]
               ELSE hist
    /\ UNCHANGED <<windows, cacheVars, appVars>>

SeqDone(p) ==
    /\ RLDone(p)
    /\ hist' = [hist EXCEPT !.cur = NoCur]
    /\ UNCHANGED <<windows, cacheVars, appVars>>

\* one request at a time needs one slot
SeqProc == "r1"

NextRLSeq ==
    \/ SeqTick
    \/ SeqSkip(SeqProc)
    \/ \E k \in Keys : SeqBegin(SeqProc, k)
    \/ SeqRead(SeqProc)
    \/ SeqWrite(SeqProc)
    \/ SeqDecide(SeqProc)
    \/ SeqDone(SeqProc)

SpecRLSeq == InitRL /\ [][NextRLSeq]_vars

\* ------------------------------------------------ the cache wrapper
\* get, set, delete and clear are one awaited store call each; getOrSet is a
\* read, the compute effect and a write, with other calls running in between.

TtlArgs == 0 .. MaxTtl

\* ttl none (0): the entry never expires
WarmAfter(w, sk, entry) == [w EXCEPT ![sk] = entry]

Cooled(w, sks) == [sk \in DOMAIN w |-> IF sk \in sks THEN Undefined ELSE w[sk]]

\* cache.get(key): reads only
CacheGetCall(ns, key, ok) ==
    /\ last' = [op |-> "get", ok |-> ok,
                out |-> cacheGet(store, ns, key, clock, ok)]
    /\ UNCHANGED <<clock, store, gos, warm>>

\* cache.set(key, value, ttl): what it does to the store
CacheSetStep(ns, key, v, ttl, ok) ==
    /\ store' = StoreAfterSet(store, ns, key, v, ttl, clock, ok)
    /\ warm' = IF ok THEN Cooled(warm, {<<ns, key>>}) ELSE warm
    /\ UNCHANGED <<clock, gos>>

CacheSetCall(ns, key, v, ttl, ok) ==
    /\ CacheSetStep(ns, key, v, ttl, ok)
    /\ last' = [op |-> "set", ok |-> ok, out |-> cacheSet(ok)]

\* cache.delete(keys)
CacheDeleteStep(ns, keys, ok) ==
    /\ store' = StoreAfterDelete(store, ns, keys, ok)
    /\ warm' = IF ok THEN Cooled(warm, {ns} \X keys) ELSE warm
    /\ UNCHANGED <<clock, gos>>

CacheDeleteCall(ns, keys, ok) ==
    /\ CacheDeleteStep(ns, keys, ok)
    /\ last' = [op |-> "delete", ok |-> ok,
                out |-> cacheDelete(store, ns, keys, clock, ok)]

\* cache.clear()
CacheClearStep(ns, ok) ==
    /\ store' = StoreAfterClear(store, ns, ok)
    /\ warm' = IF ok THEN Cooled(warm, {ns} \X CacheKeys) ELSE warm
    /\ UNCHANGED <<clock, gos>>

CacheClearCall(ns, ok) ==
    /\ CacheClearStep(ns, ok)
    /\ last' = [op |-> "clear", ok |-> ok, out |-> cacheClear(ok)]

\* getOrSet(key, compute, ttl) is called
GosCall(g, ns, key, ttl) ==
    /\ gos[g].pc = "idle"
    /\ gos' = [gos EXCEPT ![g] =
                 [IdleCall EXCEPT !.pc = "get", !.ns = ns, !.key = key, !.ttl = ttl]]
    /\ UNCHANGED <<clock, store, last, warm>>

\* cached = yield* tryPromise(cache.get) |> orElseSucceed(undefined);
\* if (cached !== undefined) return cached
GosGet(g, ok) ==
    /\ gos[g].pc = "get"
    /\ LET c == gos[g]
           eff == getOrSetRead(store, c.ns, c.key, clock, ok)
           w == warm[<<c.ns, c.key>>]
           seen == [c EXCEPT !.readOk = ok,
                             !.held = KeyvGet(store, c.ns, c.key, clock),
                             !.sawWarm = (w # Undefined /\ Alive(w, clock))]
       IN  gos' = [gos EXCEPT ![g] =
                 IF eff.exit = "Failure"
                 THEN [seen EXCEPT !.pc = "done", !.out = eff]
                 ELSE IF IsHit(eff.value)
                 THEN [seen EXCEPT !.pc = "done", !.out = Success(eff.value)]
                 ELSE [seen EXCEPT !.pc = "compute"]]
    /\ UNCHANGED <<clock, store, last, warm>>

\* value = yield* compute: the effect yields v, or fails with its error E
GosCompute(g, ok, v) ==
    /\ gos[g].pc = "compute"
    /\ LET c == gos[g]
       IN  gos' = [gos EXCEPT ![g] =
                 IF ok
                 THEN [c EXCEPT !.pc = "set", !.runs = @ + 1, !.value = v]
                 ELSE [c EXCEPT !.pc = "done", !.runs = @ + 1, !.computeOk = FALSE,
                                !.out = Failure(ComputeError)]]
    /\ UNCHANGED <<clock, store, last, warm>>

\* yield* tryPromise(cache.set(key, value, ttl)) |> orElseSucceed(false);
\* return value
GosSet(g, ok) ==
    /\ gos[g].pc = "set"
    /\ LET c == gos[g]
           eff == getOrSetWrite(ok)
           sk == <<c.ns, c.key>>
       IN  /\ store' = StoreAfterSet(store, c.ns, c.key, c.value, c.ttl, clock, ok)
           /\ gos' = [gos EXCEPT ![g] =
                 [c EXCEPT !.pc = "done", !.writeOk = ok,
                           !.stored = IF ok THEN RawEntry(store', c.ns, c.key)
                                      ELSE Undefined,
                           !.out = IF eff.exit = "Failure" THEN eff
                                   ELSE Success(c.value)]]
           /\ warm' = IF ~ok THEN warm
                      ELSE IF c.value # Undefined
                      THEN WarmAfter(warm, sk, store'[sk])
                      ELSE Cooled(warm, {sk})
    /\ UNCHANGED <<clock, last>>

\* the caller has its answer
GosReturn(g) ==
    /\ gos[g].pc = "done"
    /\ gos' = [gos EXCEPT ![g] = IdleCall]
    /\ UNCHANGED <<clock, store, last, warm>>

\* ------------------------------------------------------------ SpecCache
\* get, set, delete and clear of one cache instance, called one after another
CacheNs == "auth-guard"

CacheTick == clock < CacheMaxTime /\ Tick /\ UNCHANGED <<rlVars, cacheVars, appVars>>

CGet(key, ok) == CacheGetCall(CacheNs, key, ok) /\ UNCHANGED <<rlVars, appVars>>

CSet(key, v, ttl, ok) == CacheSetCall(CacheNs, key, v, ttl, ok) /\ UNCHANGED <<rlVars, appVars>>

CDelete(keys, ok) == CacheDeleteCall(CacheNs, keys, ok) /\ UNCHANGED <<rlVars, appVars>>

CClear(ok) == CacheClearCall(CacheNs, ok) /\ UNCHANGED <<rlVars, appVars>>

NextCache ==
    \/ CacheTick
    \/ \E key \in CacheKeys, ok \in BOOLEAN : CGet(key, ok)
    \/ \E key \in CacheKeys, v \in ComputeResults, ttl \in TtlArgs, ok \in BOOLEAN :
          CSet(key, v, ttl, ok)
    \/ \E keys \in SUBSET CacheKeys, ok \in BOOLEAN : CDelete(keys, ok)
    \/ \E ok \in BOOLEAN : CClear(ok)

SpecCache == InitRL /\ [][NextCache]_vars

\* ------------------------------------------------------------ SpecGos
\* getOrSet calls on one key; between their steps time passes and other
\* callers set, delete and clear the same cache
GosKey == "k1"

GosTick == clock < CacheMaxTime /\ Tick /\ UNCHANGED <<rlVars, cacheVars, appVars>>

GosOtherSet(v, ttl, ok) ==
    CacheSetStep(CacheNs, GosKey, v, ttl, ok) /\ UNCHANGED <<rlVars, last, appVars>>

GosOtherDelete(ok) ==
    CacheDeleteStep(CacheNs, {GosKey}, ok) /\ UNCHANGED <<rlVars, last, appVars>>

GosOtherClear(ok) == CacheClearStep(CacheNs, ok) /\ UNCHANGED <<rlVars, last, appVars>>

CGosCall(g, ttl) == GosCall(g, CacheNs, GosKey, ttl) /\ UNCHANGED <<rlVars, appVars>>

CGosGet(g, ok) == GosGet(g, ok) /\ UNCHANGED <<rlVars, appVars>>

CGosCompute(g, ok, v) == GosCompute(g, ok, v) /\ UNCHANGED <<rlVars, appVars>>

CGosSet(g, ok) == GosSet(g, ok) /\ UNCHANGED <<rlVars, appVars>>

CGosReturn(g) == GosReturn(g) /\ UNCHANGED <<rlVars, appVars>>

NextGos ==
    \/ GosTick
    \/ \E v \in ComputeResults, ttl \in TtlArgs, ok \in BOOLEAN : GosOtherSet(v, ttl, ok)
    \/ \E ok \in BOOLEAN : GosOtherDelete(ok)
    \/ \E ok \in BOOLEAN : GosOtherClear(ok)
    \/ \E g \in Callers, ttl \in TtlArgs : CGosCall(g, ttl)
    \/ \E g \in Callers, ok \in BOOLEAN : CGosGet(g, ok)
    \/ \E g \in Callers, ok \in BOOLEAN, v \in ComputeResults : CGosCompute(g, ok, v)
    \/ \E g \in Callers, ok \in BOOLEAN : CGosSet(g, ok)
    \/ \E g \in Callers : CGosReturn(g)

SpecGos == InitRL /\ [][NextGos]_vars

\* =====================================================================
\* Claims about the rate limiter
\* =====================================================================

\* the request in slot p has been returned a record by incrementRateLimit
Returned(p) == req[p].pc \in {"decide", "done"} /\ req[p].result # Null

\* the store held, when p read, a record of its key with resetAt > now
HeldLive(p) == req[p].held # Undefined /\ req[p].held.resetAt > req[p].now

\* the record the contract prescribes for p, given whether it counts as
\* continuing the current window
Prescribed(p, continues) ==
    IF continues
    THEN [count |-> req[p].held.count + 1, resetAt |-> req[p].held.resetAt]
    ELSE [count |-> 1, resetAt |-> req[p].now + ConfigWindow]

\* C1 as stated: whenever the store holds a record of the key with
\* resetAt > now, incrementRateLimit writes and returns count + 1 with the same
\* resetAt, and otherwise writes and returns count 1 with resetAt = now + window.
C1_AsStated ==
    \A p \in Procs : Returned(p) =>
        /\ req[p].result = Prescribed(p, HeldLive(p))
        /\ req[p].stored = req[p].result

\* C1 amended: the record returned is count + 1 with the same resetAt exactly
\* when the read succeeded and found a record with resetAt > now; when the read
\* found nothing, found resetAt <= now or failed, it is count 1 with
\* resetAt = now + window; the returned record is the one in the store after
\* the write whenever the write succeeded.
C1_IncrementContract ==
    \A p \in Procs : Returned(p) =>
        /\ req[p].result = Prescribed(p, req[p].readOk /\ HeldLive(p))
        /\ req[p].writeOk => req[p].stored = req[p].result

\* C1 witness: a request that found a live record was returned count 2, a
\* successful write stored it.
C1_Witness ==
    \E p \in Procs :
        /\ Returned(p) /\ req[p].readOk /\ req[p].writeOk /\ HeldLive(p)
        /\ req[p].result.count = 2
        /\ req[p].stored = req[p].result

\* the step in which slot p completes a successful write that continues the
\* window of the record now in the store
WritesIntoWindow(p) ==
    /\ req[p].pc = "write" /\ req'[p].pc = "decide" /\ req'[p].writeOk
    /\ IsIncrement(req[p].existing, req[p].now)
    /\ store[<<RateLimitNs, req[p].key>>].value.resetAt = req[p].existing.resetAt

StoredCount(st, k) == st[<<RateLimitNs, k>>].value.count

\* C2 as stated: the update is atomic, every request's write inside a window
\* raises the stored count by one, so no update is lost.
C2_AsStated ==
    [][\A p \in Procs : WritesIntoWindow(p) =>
          StoredCount(store', req[p].key) = StoredCount(store, req[p].key) + 1]_vars

\* C2 amended: a request's write inside a window raises the stored count by
\* exactly one provided no other request wrote the key between this request's
\* read and its write.
C2_NoLostUpdateUnlessInterleaved ==
    [][\A p \in Procs : (WritesIntoWindow(p) /\ ~req[p].dirty) =>
          StoredCount(store', req[p].key) = StoredCount(store, req[p].key) + 1]_vars

\* C2 witness: a request has written count 2 into the window without any
\* other write between its read and its write.
C2_Witness ==
    \E p \in Procs :
        /\ Returned(p) /\ req[p].readOk /\ req[p].writeOk /\ ~req[p].dirty
        /\ HeldLive(p)
        /\ req[p].stored.count = req[p].held.count + 1

\* the request in slot p was counted (not skipped, no exception) and answered
Answered(p) ==
    /\ req[p].pc = "done"
    /\ req[p].result # Null

Min(a, b) == IF a < b THEN a ELSE b

MatchesIdeal(p) ==
    /\ req[p].result.count = hist.cur.iseq
    /\ req[p].result.resetAt = hist.cur.iend

\* C4 as stated: a request arriving at t < resetAt of the current record is
\* counted in the current window, the first arriving at t >= resetAt starts a
\* new window with count 1 and resetAt = t + window.
C4_AsStated == \A p \in Procs : Returned(p) => MatchesIdeal(p)

\* C4 amended: with requests processed one at a time against a working store,
\* the above holds as long as no record has expired in the store between a
\* request's arrival (its Date.now()) and its read.
C4_ResetAtBoundary ==
    ~hist.straddled => \A p \in Procs : Returned(p) => MatchesIdeal(p)

\* C4 witness: a request arriving exactly at resetAt of the current window
\* (t = resetAt) started a new window with count 1 and resetAt = t + window.
C4_Witness ==
    \E p \in Procs :
        /\ Returned(p) /\ ~hist.straddled
        /\ hist.cur.prevEnd > 0
        /\ req[p].now = hist.cur.prevEnd
        /\ req[p].held # Undefined
        /\ req[p].result = [count |-> 1, resetAt |-> req[p].now + ConfigWindow]

\* C5: read and write are separate store operations, so updates can be lost
\* but never invented: the stored count of a window never exceeds the number
\* of requests counted in it, and every admitted request was itself returned
\* a count of at most max (the witness shows the interleaving in which more
\* than max are admitted).
C5_CountNeverAhead ==
    /\ \A k \in Keys : <<RateLimitNs, k>> \in DOMAIN store =>
          LET e == store[<<RateLimitNs, k>>].value
          IN  e.count <= windows[e.resetAt].c
    /\ \A p \in Procs : (Answered(p) /\ req[p].resp.handled) =>
          req[p].result.count <= ConfigMax

\* C5 witness: two requests read the same record and both wrote the same
\* count, and more than max requests were admitted in that window.
C5_Witness ==
    \E p, q \in Procs :
        /\ p # q
        /\ Answered(p) /\ Answered(q)
        /\ req[p].readOk /\ req[q].readOk /\ req[p].writeOk /\ req[q].writeOk
        /\ req[p].existing # Null
        /\ req[p].existing = req[q].existing
        /\ req[p].result = req[q].result
        /\ req[p].resp.handled /\ req[q].resp.handled
        /\ windows[req[p].result.resetAt].n > ConfigMax

\* a store call of the request in slot p failed
StoreFailed(p) == ~req[p].readOk \/ ~req[p].writeOk

\* C6 as stated: a store failure is swallowed and the request allowed through
\* to the handler (no 429, no exception).
C6_AsStated ==
    \A p \in Procs : (req[p].pc = "done" /\ StoreFailed(p)) => req[p].resp.handled

\* C6 amended: a store failure never produces an exception; a failed read is
\* treated as a miss, so the request counts as the first of a new window and
\* is allowed through; a failed write leaves the decision to the count the
\* request computed, so the request is rejected with 429 when that count
\* exceeds max.
C6_FailureSwallowed ==
    \A p \in Procs : (req[p].pc = "done" /\ StoreFailed(p)) =>
        /\ ~req[p].resp.threw
        /\ ~req[p].readOk =>
              /\ req[p].result = [count |-> 1, resetAt |-> req[p].now + ConfigWindow]
              /\ req[p].resp.handled
        /\ req[p].resp.handled <=> req[p].result.count <= ConfigMax

\* C6 witness: a request whose write failed was rejected with 429.
C6_Witness ==
    \E p \in Procs :
        /\ req[p].pc = "done"
        /\ req[p].readOk /\ ~req[p].writeOk
        /\ ~req[p].resp.handled /\ ~req[p].resp.threw
        /\ req[p].resp.status = 429

\* ------------------------------------------------------------ cache claims
\* C7: get, set, delete and clear never fail; when the store operation
\* rejects, get yields None and set, delete and clear yield false, and no
\* error reaches the caller.
C7_NeverFail ==
    last.op # "none" =>
        /\ last.out.exit = "Success"
        /\ ~last.ok =>
              last.out.value = (IF last.op = "get" THEN None ELSE FALSE)

\* C7 witness: a delete was rejected by the store while the key was held; the
\* caller got false.
C7_Witness ==
    /\ last.op = "delete" /\ ~last.ok
    /\ last.out = Success(FALSE)
    /\ KeyvHas(store, CacheNs, "k1", clock)

\* the getOrSet call of g has its outcome
Finished(g) == gos[g].pc = "done"

\* at its read the store held a defined, unexpired value for the key, or the
\* entry written by an earlier getOrSet, not expired, deleted or cleared since
WarmAtRead(g) == gos[g].held # Undefined \/ gos[g].sawWarm

\* C8 as stated: for a warm key getOrSet returns the held value and runs
\* compute zero times.
C8_AsStated ==
    \A g \in Callers : (Finished(g) /\ WarmAtRead(g)) =>
        /\ gos[g].runs = 0
        /\ gos[g].out = Success(gos[g].held)

\* C8 amended: for a warm key whose store read succeeds getOrSet returns the
\* held value and runs compute zero times; when the store read fails, compute
\* runs once even though the key is warm.
C8_WarmKeyNotRecomputed ==
    \A g \in Callers : (Finished(g) /\ WarmAtRead(g)) =>
        IF gos[g].readOk
        THEN /\ gos[g].runs = 0
             /\ gos[g].out = Success(gos[g].held)
        ELSE gos[g].runs = 1

\* C8 witness: a getOrSet call that started after an earlier one had written
\* the entry read it back, and compute did not run.
C8_Witness ==
    \E g \in Callers :
        /\ Finished(g) /\ gos[g].sawWarm /\ gos[g].readOk
        /\ gos[g].runs = 0
        /\ gos[g].out = Success(gos[g].held)

\* the step that finishes a getOrSet call on a cold key (the read succeeded and
\* the store returned no value): compute ran once; its value is returned and,
\* when `always` or when the store write succeeded, is in the store under the
\* key with the given ttl; a compute failure is the outcome and the store is
\* as it was.
ColdFinish(g, always) ==
    LET c == gos[g]
        d == gos'[g]
    IN  (c.pc # "done" /\ d.pc = "done" /\ d.readOk /\ d.held = Undefined) =>
            /\ d.runs = 1
            /\ IF d.computeOk
               THEN /\ d.out = Success(d.value)
                    /\ IF always \/ d.writeOk
                       THEN RawEntry(store', d.ns, d.key) =
                                [value |-> d.value, ttl |-> d.ttl > 0,
                                 expires |-> clock + d.ttl]
                       ELSE store' = store
               ELSE /\ d.out = Failure(ComputeError)
                    /\ store' = store

\* C9 as stated: on a cold key getOrSet runs compute once, writes the result
\* under the key with the given ttl and returns it; a compute failure is
\* propagated unchanged and nothing is written.
C9_AsStated == [][\A g \in Callers : ColdFinish(g, TRUE)]_vars

\* C9 amended: on a cold key getOrSet runs compute once and returns the
\* result; the result is written under the key with the given ttl when the
\* store write succeeds, and the store is left as it was when the write fails;
\* a compute failure is propagated unchanged and nothing is written.
C9_ColdKeyComputedOnce == [][\A g \in Callers : ColdFinish(g, FALSE)]_vars

\* C9 witness: a call on a cold key computed once, wrote its value with a ttl
\* and returned it.
C9_Witness ==
    \E g \in Callers :
        /\ Finished(g) /\ gos[g].readOk /\ gos[g].held = Undefined
        /\ gos[g].runs = 1 /\ gos[g].computeOk /\ gos[g].writeOk
        /\ gos[g].ttl > 0
        /\ gos[g].stored = [value |-> gos[g].value, ttl |-> TRUE,
                            expires |-> gos[g].stored.expires]
        /\ gos[g].out = Success(gos[g].value)

\* C10: a failed cache read is a miss and a failed cache write a no-op: after a
\* failed read compute runs and its value is returned; after a failed write
\* the computed value is returned; the only error that reaches the caller is
\* the one of compute.
C10_FailuresDegrade ==
    \A g \in Callers : Finished(g) =>
        /\ ~gos[g].readOk =>
              /\ gos[g].runs = 1
              /\ gos[g].computeOk => gos[g].out = Success(gos[g].value)
        /\ (gos[g].runs = 1 /\ gos[g].computeOk /\ ~gos[g].writeOk) =>
              gos[g].out = Success(gos[g].value)
        /\ gos[g].out.exit = "Failure" =>
              /\ ~gos[g].computeOk
              /\ gos[g].out = Failure(ComputeError)

\* C10 witness: a call whose read and write both failed on a held key returned
\* the value it computed.
C10_Witness ==
    \E g \in Callers :
        /\ Finished(g) /\ ~gos[g].readOk /\ ~gos[g].writeOk
        /\ gos[g].held # Undefined
        /\ gos[g].runs = 1 /\ gos[g].computeOk
        /\ gos[g].out = Success(gos[g].value)

\* ------------------------------------------------------------ C11..C12
\* C11: every request that is not skipped, admitted or rejected, carries
\* X-RateLimit-Limit = max, X-RateLimit-Remaining = max(0, max - count), never
\* negative and 0 on a rejected request, and X-RateLimit-Reset = the resetAt of
\* the record the increment returned.
C11_Headers ==
    \A p \in Procs : Answered(p) =>
        LET h == req[p].resp.headers
            r == req[p].result
        IN  /\ h.limit = ConfigMax
            /\ h.remaining = (IF r.count >= ConfigMax THEN 0 ELSE ConfigMax - r.count)
            /\ h.remaining >= 0
            /\ ~req[p].resp.handled => h.remaining = 0
            /\ h.reset = r.resetAt

\* C11 witness: a rejected request, its count above max, carries Remaining 0
\* and the resetAt of its record as Reset.
C11_Witness ==
    \E p \in Procs :
        /\ Answered(p) /\ ~req[p].resp.handled
        /\ req[p].result.count > ConfigMax
        /\ req[p].resp.headers.remaining = 0
        /\ req[p].resp.headers.reset = req[p].result.resetAt

\* the write of the request in slot p reaches the store in this step, and the
\* entry it leaves expires ttl(p) after the write
WrittenWithTtl(p, ttl) ==
    (req[p].pc = "write" /\ req'[p].pc = "decide" /\ req'[p].writeOk) =>
        RawEntry(store', RateLimitNs, req[p].key) =
            [value |-> req'[p].result, ttl |-> TRUE, expires |-> clock + ttl]

\* C12 as stated: every record, first of a window or increment, is written
\* with a TTL equal to the configured window.
C12_AsStated == [][\A p \in Procs : WrittenWithTtl(p, ConfigWindow)]_vars

\* C12 amended: the record of the first request of a window is written with a
\* TTL equal to the configured window; an incremented record is written with
\* the time left in its window, resetAt - now, now being the request's
\* Date.now().
C12_TtlOfRecord ==
    [][\A p \in Procs :
         WrittenWithTtl(p, IF req'[p].result.count = 1
                           THEN ConfigWindow
                           ELSE req'[p].result.resetAt - req[p].now)]_vars

\* C12 witness: an incremented record is in the store with less than a window
\* to live.
C12_Witness ==
    \E p \in Procs :
        /\ Returned(p) /\ req[p].writeOk
        /\ req[p].result.count > 1
        /\ req[p].result.resetAt - req[p].now < ConfigWindow
        /\ RawEntry(store, RateLimitNs, req[p].key) # Undefined
        /\ RawEntry(store, RateLimitNs, req[p].key).value = req[p].result
        /\ RawEntry(store, RateLimitNs, req[p].key).expires < req[p].now + ConfigWindow

\* ------------------------------------------------------------ SpecTtl
\* get and getOrSet calls on one key whose entries are written with a ttl by
\* set and by getOrSet, while time passes
TtlGet(ok) == last = NoCall /\ CGet(GosKey, ok)

\* the caller of get has its answer
TtlGetReturn ==
    /\ last # NoCall
    /\ last' = NoCall
    /\ UNCHANGED <<clock, store, rlVars, gos, warm, appVars>>

NextCacheTtl ==
    \/ GosTick
    \/ \E v \in ComputeResults, ttl \in TtlArgs, ok \in BOOLEAN : GosOtherSet(v, ttl, ok)
    \/ \E ok \in BOOLEAN : TtlGet(ok)
    \/ TtlGetReturn
    \/ \E g \in Callers, ttl \in TtlArgs : CGosCall(g, ttl)
    \/ \E g \in Callers, ok \in BOOLEAN : CGosGet(g, ok)
    \/ \E g \in Callers, ok \in BOOLEAN, v \in ComputeResults : CGosCompute(g, ok, v)
    \/ \E g \in Callers, ok \in BOOLEAN : CGosSet(g, ok)
    \/ \E g \in Callers : CGosReturn(g)

SpecTtl == InitRL /\ [][NextCacheTtl]_vars

\* the latest write of GosKey, if the key was not deleted since
TtlEntry == RawEntry(store, CacheNs, GosKey)

\* that write had a ttl, and ttl milliseconds or more have passed since
Lapsed == TtlEntry # Undefined /\ TtlEntry.ttl /\ clock >= TtlEntry.expires

Colon == <<":">>

NsNames == {<<"user">>, <<"user", ":", "profile">>, <<"order">>}

NsKeys == {<<"1">>, <<"profile", ":", "1">>}

NsValues == {[v |-> 1], [v |-> 2]}

\* const fullNamespace = `sql-checking:${namespace}`
fullNamespace(namespace) == <<"sql-checking">> \o Colon \o namespace

\* the key under which the Keyv of a namespace keeps `key` in the store
KeyvKey(namespace, key) == fullNamespace(namespace) \o Colon \o key

\* the keys of the store that belong to the Keyv of a namespace
HasPrefix(s, p) == Len(s) >= Len(p) /\ SubSeq(s, 1, Len(p)) = p

KeyvKeysOf(st, namespace) ==
    {k \in DOMAIN st : HasPrefix(k, fullNamespace(namespace) \o Colon)}

\* what cache.get(key) of the namespace's instance finds
NsVisible(st, namespace, key) ==
    IF KeyvKey(namespace, key) \in DOMAIN st
    THEN st[KeyvKey(namespace, key)]
    ELSE Undefined

\* createCache(namespace).set(key, value)
NsSet(namespace, key, v, ok) ==
    /\ store' = IF ok THEN (KeyvKey(namespace, key) :> v) @@ store ELSE store
    /\ last' = [op |-> "set", ns |-> namespace, ok |-> ok, out |-> cacheSet(ok)]
    /\ UNCHANGED <<clock, rlVars, gos, warm, appVars>>

\* createCache(namespace).delete(key)
NsDelete(namespace, key, ok) ==
    /\ store' = IF ok
                THEN [k \in DOMAIN store \ {KeyvKey(namespace, key)} |-> store[k]]
                ELSE store
    /\ last' = [op |-> "delete", ns |-> namespace, ok |-> ok,
                out |-> orElseSucceed(
                          tryPromise(ok, KeyvKey(namespace, key) \in DOMAIN store),
                          FALSE)]
    /\ UNCHANGED <<clock, rlVars, gos, warm, appVars>>

\* createCache(namespace).clear()
NsClear(namespace, ok) ==
    /\ store' = IF ok
                THEN [k \in DOMAIN store \ KeyvKeysOf(store, namespace) |-> store[k]]
                ELSE store
    /\ last' = [op |-> "clear", ns |-> namespace, ok |-> ok, out |-> cacheClear(ok)]
    /\ UNCHANGED <<clock, rlVars, gos, warm, appVars>>

NextNs ==
    \/ \E n \in NsNames, k \in NsKeys, v \in NsValues, ok \in BOOLEAN : NsSet(n, k, v, ok)
    \/ \E n \in NsNames, k \in NsKeys, ok \in BOOLEAN : NsDelete(n, k, ok)
    \/ \E n \in NsNames, ok \in BOOLEAN : NsClear(n, ok)

SpecNs == InitRL /\ [][NextNs]_vars

\* C14: set, delete and clear issued through the instance of one namespace
\* never add, change or remove an entry visible through the instance of a
\* different namespace, whatever the keys.
C14_AsStated ==
    [][\A n \in NsNames \ {last'.ns} : \A k \in NsKeys :
          NsVisible(store', n, k) = NsVisible(store, n, k)]_vars

\* ------------------------------------------------------------ SpecGuard
\* The user table and the role lookup of the back-office sign-in guard.
AUTH_GUARD_CACHE_TTL_MS == 2      \* 60000 in the source, scaled down

EmailOf(u) == "e1"

UsernameOf(u) == "n1"

\* a user signs up / is seeded with a role
DbCreateUser(u, role) ==
    /\ db[u] = NoRow
    /\ db' = [db EXCEPT ![u] = [exists |-> TRUE, email |-> EmailOf(u),
                                username |-> UsernameOf(u), role |-> role,
                                isDeleted |-> FALSE]]

\* the soft delete: update({ data: { isDeleted: true, ... } })
DbSoftDelete(u) ==
    /\ db[u] # NoRow /\ ~db[u].isDeleted
    /\ db' = [db EXCEPT ![u].isDeleted = TRUE]

\* prisma.user.findFirst({ where: { [field]: identifier } }): a row or null
findFirst(d, field, identifier) ==
    LET found == {u \in Users : d[u] # NoRow /\ d[u][field] = identifier}
    IN  IF found = {} THEN Null ELSE d[CHOOSE u \in found : TRUE]

\* the sign-in requests the guard looks a role up for: <<path, identifier>>
GuardRequests == {<<"/sign-in/email", "e1">>, <<"/sign-in/username", "n1">>}

\* cacheKey = JSON.stringify(['back-office-role', path, identifier])
cacheKey(path, identifier) == IF path = "/sign-in/email" THEN "k1" ELSE "k2"

RequestOfKey(key) == CHOOSE r \in GuardRequests : cacheKey(r[1], r[2]) = key

\* the compute effect of getUserRole: user?.role ?? null
getUserRoleCompute(d, path, identifier) ==
    LET user == findFirst(d, IF path = "/sign-in/email" THEN "email" ELSE "username",
                          identifier)
    IN  IF user = Null THEN Null ELSE user.role

GuardTick == clock < CacheMaxTime /\ Tick /\ UNCHANGED <<rlVars, cacheVars, appVars>>

GuardCreateUser(u, role) ==
    DbCreateUser(u, role) /\ UNCHANGED <<clock, store, rlVars, cacheVars, notDb>>

GuardSoftDelete(u) ==
    DbSoftDelete(u) /\ UNCHANGED <<clock, store, rlVars, cacheVars, notDb>>

\* getUserRole(path, identifier) starts AUTH_GUARD_CACHE.getOrSet
GuardLookup(g, r) ==
    /\ GosCall(g, CacheNs, cacheKey(r[1], r[2]), AUTH_GUARD_CACHE_TTL_MS)
    /\ UNCHANGED <<rlVars, appVars>>

\* the compute effect runs: the findFirst resolves (ok) or rejects
GuardCompute(g, ok) ==
    /\ LET r == RequestOfKey(gos[g].key)
       IN  GosCompute(g, ok, getUserRoleCompute(db, r[1], r[2]))
    /\ UNCHANGED <<rlVars, appVars>>

NextGuard ==
    \/ GuardTick
    \/ \E u \in Users, role \in USER_ROLE : GuardCreateUser(u, role)
    \/ \E u \in Users : GuardSoftDelete(u)
    \/ \E g \in Callers, r \in GuardRequests : GuardLookup(g, r)
    \/ \E g \in Callers, ok \in BOOLEAN : CGosGet(g, ok)
    \/ \E g \in Callers, ok \in BOOLEAN : GuardCompute(g, ok)
    \/ \E g \in Callers, ok \in BOOLEAN : CGosSet(g, ok)
    \/ \E g \in Callers : CGosReturn(g)

SpecGuard == InitRL /\ [][NextGuard]_vars

\* the row the lookup of caller g is about is marked deleted
LooksUpDeleted(g) ==
    LET r == RequestOfKey(gos[g].key)
        user == findFirst(db, IF r[1] = "/sign-in/email" THEN "email" ELSE "username",
                          r[2])
    IN  user # Null /\ user.isDeleted

\* C15: every database read filters on isDeleted = false, the user lookup of
\* the back-office sign-in guard included: the lookup never returns a record
\* marked deleted (it finds no user, and the role is null).
C15_AsStated ==
    [][\A g \in Callers :
          (gos[g].pc = "compute" /\ gos'[g].pc = "set" /\ LooksUpDeleted(g)) =>
              gos'[g].value = Null]_vars

\* ------------------------------------------------------------ SpecRetry
\* An effect piped into Effect.retry(API_RETRY_POLICY), where
\* API_RETRY_POLICY = Schedule.exponential(Duration.millis(500), 1)
\*                      .pipe(Schedule.intersect(Schedule.recurs(3)))
RetryBaseMs == 2          \* Duration.millis(500), scaled down
RetryFactor == 1          \* the factor of Schedule.exponential
RetryRecurs == 3          \* Schedule.recurs(3)
MaxRetryCalls == 2        \* SpecRetry: effects run under the policy

RetryErrors == {"E1", "E2"}

RECURSIVE Pow(_, _)
Pow(b, n) == IF n = 0 THEN 1 ELSE b * Pow(b, n - 1)

\* Schedule.exponential(base, factor): the delay before recurrence n + 1
exponentialDelay(n) == RetryBaseMs * Pow(RetryFactor, n)

\* Schedule.recurs(k): goes on while fewer than k recurrences were made
recursContinuesMutant(n) == n <= RetryRecurs
recursContinues(n) == n < RetryRecurs

\* Schedule.intersect: goes on while both do, with the longer of the delays
policyContinues(n) == recursContinues(n)

policyDelay(n) == IF exponentialDelay(n) > 0 THEN exponentialDelay(n) ELSE 0

\* the wrapped effect is run
RetryRun ==
    /\ retry.pc = "idle" /\ retry.calls < MaxRetryCalls
    /\ retry' = [IdleRetry EXCEPT !.pc = "running", !.calls = retry.calls + 1,
                                  !.attempts = 1]
    /\ UNCHANGED <<clock, store, rlVars, cacheVars, notRetry>>

\* the attempt succeeds: retry is over
RetryAttemptOk(v) ==
    /\ retry.pc = "running"
    /\ retry' = [retry EXCEPT !.pc = "done", !.out = Success(v)]
    /\ UNCHANGED <<clock, store, rlVars, cacheVars, notRetry>>

\* the attempt fails with e: the schedule decides between another run after
\* its delay and giving e to the caller
RetryAttemptFail(e) ==
    /\ retry.pc = "running"
    /\ LET n == retry.attempts - 1
           seen == [retry EXCEPT !.errors = Append(@, e)]
       IN  retry' = IF policyContinues(n)
                    THEN [seen EXCEPT !.pc = "waiting", !.delay = policyDelay(n),
                                      !.slept = 0]
                    ELSE [seen EXCEPT !.pc = "done", !.out = Failure(e)]
    /\ UNCHANGED <<clock, store, rlVars, cacheVars, notRetry>>

\* a millisecond of the delay passes
RetrySleep ==
    /\ retry.pc = "waiting" /\ retry.slept < retry.delay
    /\ retry' = [retry EXCEPT !.slept = @ + 1]
    /\ UNCHANGED <<clock, store, rlVars, cacheVars, notRetry>>

\* the delay is over: the effect is run again
RetryAgain ==
    /\ retry.pc = "waiting" /\ retry.slept = retry.delay
    /\ retry' = [retry EXCEPT !.pc = "running", !.attempts = @ + 1]
    /\ UNCHANGED <<clock, store, rlVars, cacheVars, notRetry>>

\* the caller has the outcome
RetryReturn ==
    /\ retry.pc = "done"
    /\ retry' = [IdleRetry EXCEPT !.calls = retry.calls]
    /\ UNCHANGED <<clock, store, rlVars, cacheVars, notRetry>>

NextRetry ==
    \/ RetryRun
    \/ \E v \in NsValues : RetryAttemptOk(v)
    \/ \E e \in RetryErrors : RetryAttemptFail(e)
    \/ RetrySleep
    \/ RetryAgain
    \/ RetryReturn

SpecRetry == InitRL /\ [][NextRetry]_vars

\* each attempt ends, and the runtime keeps running the fiber
SpecRetryFair == SpecRetry /\ WF_vars(NextRetry)

\* what holds of the attempts at every moment
RetryBounded ==
    /\ retry.attempts <= RetryRecurs + 1
    /\ Len(retry.errors) <= retry.attempts
    /\ retry.pc = "done" =>
          IF retry.out.exit = "Success"
          THEN Len(retry.errors) = retry.attempts - 1
          ELSE /\ retry.attempts = RetryRecurs + 1
               /\ Len(retry.errors) = retry.attempts
               /\ retry.out = Failure(retry.errors[retry.attempts])

\* C16: an effect wrapped with API_RETRY_POLICY is re-run after a failure at
\* most 3 times (4 attempts in all); the first success stops retrying; when
\* every attempt fails the failure (of the last attempt) is returned; and a
\* started retry always ends, with a success or a failure.
C16_RetryBounded ==
    /\ []RetryBounded
    /\ (retry.pc = "running") ~> (retry.pc = "done")

\* C16 witness: the effect failed four times and the caller was given the
\* failure of the fourth attempt, which differs from the first.
C16_Witness ==
    /\ retry.pc = "done"
    /\ retry.attempts = 4 /\ Len(retry.errors) = 4
    /\ retry.errors[1] # retry.errors[4]
    /\ retry.out = Failure(retry.errors[4])

\* ------------------------------------------------------------ SpecInval
\* The cached role lookup (cache-aside read) beside a repository function
\* that follows the documented write pattern on the same key: update the
\* row, delete the cache key, clear the namespace.
MaxUpdates == 2           \* SpecInval: writes made

InvRequest == <<"/sign-in/email", "e1">>

InvKey == cacheKey(InvRequest[1], InvRequest[2])

\* what a read of the database yields now
CurrentValue == getUserRoleCompute(db, InvRequest[1], InvRequest[2])

\* prisma.user.update (or create): the row gets another role. `overlap`
\* notes a getOrSet call that has computed and not yet written (history).
WUpdate(u, role) ==
    /\ wr.pc = "idle" /\ wr.n < MaxUpdates
    /\ IF db[u] = NoRow THEN TRUE ELSE db[u].role # role
    /\ db' = [db EXCEPT ![u] = [exists |-> TRUE, email |-> EmailOf(u),
                                username |-> UsernameOf(u), role |-> role,
                                isDeleted |-> FALSE]]
    /\ wr' = [pc |-> "delete", n |-> wr.n + 1, deleteOk |-> FALSE,
              removed |-> FALSE, late |-> FALSE,
              overlap |-> \E g \in Callers : gos[g].pc = "set"]
    /\ UNCHANGED <<clock, store, rlVars, cacheVars, notDbWr>>

\* yield* userCache.delete(key)
WDelete(ok) ==
    /\ wr.pc = "delete"
    /\ CacheDeleteStep(CacheNs, {InvKey}, ok)
    /\ wr' = [wr EXCEPT !.pc = "clear", !.deleteOk = ok,
                        !.removed = cacheDelete(store, CacheNs, {InvKey}, clock, ok).value]
    /\ UNCHANGED <<rlVars, last, db, notDbWr>>

\* yield* userCache.clear(); return updatedUser
WClear(ok) ==
    /\ wr.pc = "clear"
    /\ CacheClearStep(CacheNs, ok)
    /\ wr' = [wr EXCEPT !.pc = "idle"]
    /\ UNCHANGED <<rlVars, last, db, notDbWr>>

InvTick == clock < CacheMaxTime /\ Tick /\ UNCHANGED <<rlVars, cacheVars, appVars>>

\* a getOrSet call on the key starts; `late` notes that the delete of the
\* last write had completed by then (history)
InvLookup(g) ==
    /\ GosCall(g, CacheNs, InvKey, AUTH_GUARD_CACHE_TTL_MS)
    /\ wr' = [wr EXCEPT !.late = (wr.n > 0 /\ wr.pc # "delete" /\ wr.deleteOk)]
    /\ UNCHANGED <<rlVars, db, notDbWr>>

NextInval ==
    \/ InvTick
    \/ \E u \in Users, role \in USER_ROLE : WUpdate(u, role)
    \/ \E ok \in BOOLEAN : WDelete(ok)
    \/ \E ok \in BOOLEAN : WClear(ok)
    \/ \E g \in Callers : InvLookup(g)
    \/ \E g \in Callers, ok \in BOOLEAN : CGosGet(g, ok)
    \/ \E g \in Callers, ok \in BOOLEAN : GuardCompute(g, ok)
    \/ \E g \in Callers, ok \in BOOLEAN : CGosSet(g, ok)
    \/ \E g \in Callers : CGosReturn(g)

SpecInval == InitRL /\ [][NextInval]_vars

\* the getOrSet call of g started after the delete of the last write had
\* completed, no write was made since, and it has returned a value
LaterAnswered(g) ==
    /\ Finished(g) /\ wr.late
    /\ gos[g].out.exit = "Success"

\* C17 as stated: once the delete of the write pattern has completed, every
\* later getOrSet on the key returns the updated value, for every
\* interleaving with other getOrSet calls.
C17_AsStated ==
    \A g \in Callers : LaterAnswered(g) => gos[g].out.value = CurrentValue

\* C17 amended: once the delete has completed, every later getOrSet on the key
\* returns the updated value, provided no getOrSet call on the key had read
\* the database and not yet written its result to the cache at the moment the
\* row was updated.
C17_FreshAfterInvalidation ==
    \A g \in Callers : (LaterAnswered(g) /\ ~wr.overlap) =>
        gos[g].out.value = CurrentValue

\* C17 witness: the delete removed a cached value, and a getOrSet call that
\* started later computed and returned the updated one.
C17_Witness ==
    \E g \in Callers :
        /\ LaterAnswered(g) /\ ~wr.overlap
        /\ wr.removed /\ wr.n = 2
        /\ gos[g].runs = 1
        /\ gos[g].out.value = CurrentValue

\* ------------------------------------------------------------ SpecHttp
\* One client made by createApiClient / useApiClient (@repo/internal-api) or
\* by createHttpClient (@repo/fetch), its requests and abortAll. Texts are
\* sequences of their parts, so that quoting a text is concatenation.
ClientKinds == {"internal", "fetch"}

JsonBody == <<"{", "message", "}">>
TextBody == <<"NOT_FOUND">>
Bodies == {JsonBody, TextBody}

Responses == [status : {200, 404, 304}, body : Bodies]

\* what the awaited axios call can end with
OkResponses == {res \in Responses : res.status = 200}

AxiosErrors ==
    [axios : {TRUE}, response : {res \in Responses : res.status # 200},
     message : {<<"Request failed">>}]
    \cup [axios : {TRUE}, response : {Null},
          message : {<<"Network Error">>, <<"canceled">>, << >>}]

OtherErrors == {[axios |-> FALSE, name |-> "Error"]}

\* axios's transformResponse: a body that is JSON is parsed, another is kept
\* as the string it is
IsJsonText(b) == b # << >> /\ b[1] \in {"{", "\""}

axiosData(b) == IF IsJsonText(b) THEN [json |-> b] ELSE [string |-> b]

\* JSON.stringify(res.data)
jsonStringify(data) ==
    IF "json" \in DOMAIN data THEN data.json
    ELSE <<"\"">> \o data.string \o <<"\"">>

\* new Response(body, { status }) throws for a body with a null body status
NullBodyStatus(status) == status \in {101, 204, 205, 304}

Returned_(v) == [returned |-> v]

Thrown(e) == [thrown |-> e]

\* axiosToFetchResponse(res), res being what axios made of the wire response
axiosToFetchResponse(res) ==
    LET body == jsonStringify(axiosData(res.body))
    IN  IF NullBodyStatus(res.status)
        THEN Thrown([name |-> "TypeError", message |-> <<"Invalid response status code">>])
        ELSE Returned_([status |-> res.status, body |-> body])

\* `Failed to fetch: ${error.message || 'Unknown error'}`
FailedToFetch(error) ==
    [name |-> "TypeError",
     message |-> <<"Failed to fetch: ">> \o
                 (IF error.message # << >> THEN error.message ELSE <<"Unknown error">>)]

\* axios.isAxiosError(error)
isAxiosError(error) == IF "axios" \in DOMAIN error THEN error.axios ELSE FALSE

\* handleAxiosError of @repo/internal-api
handleAxiosErrorInternal(error) ==
    IF isAxiosError(error)
    THEN IF error.response # Null
         THEN axiosToFetchResponse(error.response)
         ELSE Thrown(FailedToFetch(error))
    ELSE Thrown(error)

\* handleAxiosError of @repo/fetch
handleAxiosErrorFetch(error) ==
    IF isAxiosError(error) THEN Thrown(FailedToFetch(error)) ELSE Thrown(error)

\* what fetcher / customFetch gives its caller when axios resolved with res
OnResolved(kind, res) ==
    IF kind = "fetch" THEN Returned_(res)
    ELSE LET r == axiosToFetchResponse(res)
         IN  IF "thrown" \in DOMAIN r THEN handleAxiosErrorInternal(r.thrown) ELSE r

\* ... and when axios rejected with error
OnRejected(kind, error) ==
    IF kind = "fetch" THEN handleAxiosErrorFetch(error)
    ELSE handleAxiosErrorInternal(error)

HttpReq(r) == http.req[r]

\* the requests whose axios call has not settled yet
HttpInFlight == {r \in HttpSlots : HttpReq(r).pc = "awaiting"}

HttpOnly(h) ==
    /\ http' = h
    /\ UNCHANGED <<clock, store, rlVars, cacheVars, notHttp>>

\* createApiClient / createHttpClient
HttpCreate(kind) ==
    /\ http.kind = "none"
    /\ HttpOnly([http EXCEPT !.kind = kind])

\* fetcher / customFetch up to its await: a new controller under a new id
HttpFetch(r) ==
    /\ http.kind # "none"
    /\ HttpReq(r).pc = "idle"
    /\ HttpOnly([http EXCEPT !.reg = @ \cup {r},
                             !.req[r] = [IdleHttpReq EXCEPT !.pc = "awaiting"]])

\* the listener on init.signal: controller.abort()
HttpSignalAbort(r) ==
    /\ HttpReq(r).pc = "awaiting"
    /\ HttpReq(r).aborted = "no"
    /\ HttpOnly([http EXCEPT !.req[r].aborted = "signal"])

\* abortAll: abort every controller of the map, then clear the map
HttpAbortAll ==
    /\ http.kind # "none"
    /\ http.reg # {}
    /\ HttpOnly([http EXCEPT
                   !.reg = {},
                   !.req = [r \in HttpSlots |->
                              IF r \in http.reg THEN [@[r] EXCEPT !.aborted = "all"]
                              ELSE @[r]]])

\* the rest of the finally block: abortControllers.delete(requestId)
RegAfterSettleMutant(reg, r, out) ==
    IF "thrown" \in DOMAIN out THEN reg ELSE reg \ {r}

RegAfterSettle(reg, r, out) == reg \ {r}

HttpSettled(r, got, out) ==
    HttpOnly([http EXCEPT !.reg = RegAfterSettle(@, r, out),
                          !.req[r].pc = "settled",
                          !.req[r].got = got,
                          !.req[r].out = out])

\* the axios call resolves: try block, then finally
HttpResolve(r, res) ==
    /\ HttpReq(r).pc = "awaiting"
    /\ HttpSettled(r, [resolved |-> res], OnResolved(http.kind, res))

\* the axios call rejects: catch block, then finally. An aborted call
\* rejects with axios's cancellation error; only an aborted call does.
HttpReject(r, error) ==
    /\ HttpReq(r).pc = "awaiting"
    /\ IF isAxiosError(error)
       THEN (error.message = <<"canceled">>) => (HttpReq(r).aborted # "no")
       ELSE TRUE
    /\ HttpSettled(r, [rejected |-> error], OnRejected(http.kind, error))

\* the caller has the outcome
HttpReturn(r) ==
    /\ HttpReq(r).pc = "settled"
    /\ HttpOnly([http EXCEPT !.req[r] = IdleHttpReq])

NextHttp ==
    \/ \E kind \in ClientKinds : HttpCreate(kind)
    \/ \E r \in HttpSlots : HttpFetch(r)
    \/ \E r \in HttpSlots : HttpSignalAbort(r)
    \/ HttpAbortAll
    \/ \E r \in HttpSlots, res \in OkResponses : HttpResolve(r, res)
    \/ \E r \in HttpSlots, error \in AxiosErrors \cup OtherErrors : HttpReject(r, error)
    \/ \E r \in HttpSlots : HttpReturn(r)

SpecHttp == InitRL /\ [][NextHttp]_vars

\* C18 as stated: the map of abort controllers holds exactly the requests in
\* flight.
C18_AsStated == http.reg = HttpInFlight

\* C18: the map of abort controllers holds exactly the requests in flight
\* that abortAll has not aborted: a request is added before it is sent and
\* removed when it settles, however it settles, and abortAll aborts every
\* request of the map and leaves the map empty.
C18_Registry ==
    /\ [](http.reg = {r \in HttpInFlight : HttpReq(r).aborted # "all"})
    /\ [][/\ \A r \in HttpSlots :
               /\ (HttpReq(r).pc = "idle" /\ HttpReq(r)'.pc = "awaiting") => r \in http.reg'
               /\ HttpReq(r)'.pc = "settled" => r \notin http.reg'
          /\ (\E r \in http.reg : HttpReq(r)'.aborted = "all" /\ HttpReq(r).aborted # "all")
             => /\ http.reg' = {}
                /\ \A r \in http.reg : HttpReq(r)'.aborted = "all"]_vars

\* a request that failed has left the map while another is still in it
C18_Witness ==
    /\ HttpReq("h1").pc = "settled"
    /\ "thrown" \in DOMAIN HttpReq("h1").out
    /\ HttpReq("h2").pc = "awaiting"
    /\ http.reg = {"h2"}

\* the requests whose axios call rejected with error and whose outcome the
\* caller has
RejectedWith(r, error) ==
    /\ HttpReq(r).pc = "settled"
    /\ HttpReq(r).got = [rejected |-> error]

ThrownFailedToFetch(out) ==
    IF "thrown" \in DOMAIN out
    THEN IF "message" \in DOMAIN out.thrown
         THEN /\ out.thrown.name = "TypeError"
              /\ out.thrown.message[1] = "Failed to fetch: "
         ELSE FALSE
    ELSE FALSE

\* C19 as stated: the internal API client returns an HTTP error response as
\* a Response with the same status and body and throws an axios error without
\* a response as a TypeError 'Failed to fetch: ...'; @repo/fetch throws every
\* axios error as such a TypeError; both rethrow another error unchanged.
C19_AsStated ==
    \A r \in HttpSlots :
      /\ \A error \in AxiosErrors :
           RejectedWith(r, error) =>
             IF http.kind = "internal" /\ error.response # Null
             THEN HttpReq(r).out = Returned_(error.response)
             ELSE ThrownFailedToFetch(HttpReq(r).out)
      /\ \A error \in OtherErrors :
           RejectedWith(r, error) => HttpReq(r).out = Thrown(error)

\* ------------------------------------------------------------ SpecPage
\* A listing: the query is parsed (PAGINATION_QUERY_SCHEMA), the repository
\* computes skip and counts, the service computes the metadata.
MaxPage == 4
MaxLimit == 4
MaxTotal == 12

\* Math.ceil(a / b) for integers a >= 0, b >= 1
ceilDivMutant(a, b) == a \div b

ceilDiv(a, b) == IF a % b = 0 THEN a \div b ELSE (a \div b) + 1

calculatePagination(page, limit, total) ==
    LET totalPages == ceilDiv(total, limit)
        hasNext == page < totalPages
        hasPrev == page > 1
    IN  [page |-> page, limit |-> limit, total |-> total,
         totalPages |-> totalPages, hasNext |-> hasNext, hasPrev |-> hasPrev]

calculateSkip(page, limit) == (page - 1) * limit

PageOnly(p) ==
    /\ pg' = p
    /\ UNCHANGED <<clock, store, rlVars, cacheVars, notPg>>

\* the query: page and limit are positive integers
PageQuery(page, limit) ==
    /\ pg.pc = "idle"
    /\ PageOnly([IdlePage EXCEPT !.pc = "query", !.page = page, !.limit = limit])

\* the repository: skip for the database query, and the count of records
PageSkip(total) ==
    /\ pg.pc = "query"
    /\ PageOnly([pg EXCEPT !.pc = "counted", !.total = total,
                           !.skip = calculateSkip(pg.page, pg.limit)])

\* the service: the metadata
PagePaginate ==
    /\ pg.pc = "counted"
    /\ PageOnly([pg EXCEPT !.pc = "done",
                           !.out = calculatePagination(pg.page, pg.limit, pg.total)])

PageReturn ==
    /\ pg.pc = "done"
    /\ PageOnly(IdlePage)

NextPage ==
    \/ \E page \in 1..MaxPage, limit \in 1..MaxLimit : PageQuery(page, limit)
    \/ \E total \in 0..MaxTotal : PageSkip(total)
    \/ PagePaginate
    \/ PageReturn

SpecPage == InitRL /\ [][NextPage]_vars

\* the least n with n * limit >= total
IsCeil(n, total, limit) ==
    /\ n * limit >= total
    /\ \A m \in 0..MaxTotal + 1 : m * limit >= total => n <= m

\* C20: calculatePagination returns totalPages = ceil(total / limit),
\* hasNext = (page < totalPages) and hasPrev = (page > 1), calculateSkip
\* returns (page - 1) * limit, and for page >= 1, limit >= 1, total >= 0
\* hasNext holds exactly when records exist beyond the current page
\* (skip + limit < total).
C20_Pagination ==
    pg.pc = "done" =>
      /\ pg.page >= 1 /\ pg.limit >= 1 /\ pg.total >= 0
      /\ IsCeil(pg.out.totalPages, pg.total, pg.limit)
      /\ pg.out.hasNext = (pg.page < pg.out.totalPages)
      /\ pg.out.hasPrev = (pg.page > 1)
      /\ pg.skip = (pg.page - 1) * pg.limit
      /\ pg.out.hasNext = (pg.skip + pg.limit < pg.total)

\* a middle page of a listing whose last page is not full
C20_Witness ==
    /\ pg.pc = "done"
    /\ pg.page = 2
    /\ pg.total % pg.limit # 0
    /\ pg.out.hasNext
    /\ pg.out.hasPrev
    /\ pg.out.totalPages = 3

\* ------------------------------------------------------------ SpecHook
\* enforceTeacherRole, the before-hook of every better-auth request, over
\* the user table and the auth-guard cache. An absent header is "none", an
\* absent body field the empty string (which is as falsy for the hook).
BACK_OFFICE_VALUE == "client"

BACK_OFFICE_SIGN_IN_PATHS == {"/sign-in/email", "/sign-in/username"}

HookPaths == BACK_OFFICE_SIGN_IN_PATHS \cup {"/sign-in/anonymous", "/sign-up/email"}

HookHeaders == {"client", "web", "none"}

HookBodies == [email : {"e1", ""}, username : {"n1", ""}]

HookCaller == "g1"

\* isBackOfficeRequest(headers)
isBackOfficeRequest(header) == header = BACK_OFFICE_VALUE

Continue == [kind |-> "continue"]

Unauthorized ==
    [kind |-> "APIError", status |-> "UNAUTHORIZED",
     message |-> "Only teachers can access the back office."]

\* runPromise rejects with the failure of the effect
Rejected(error) == [kind |-> "error", error |-> error]

\* the identifier the hook takes from the body
identifierOf(path, body) ==
    IF path = "/sign-in/email" THEN body.email ELSE body.username

\* enforceTeacherRole up to its await: an outcome, or "lookup"
hookPrefix(path, header, body) ==
    IF path \notin BACK_OFFICE_SIGN_IN_PATHS THEN Continue
    ELSE IF ~isBackOfficeRequest(header) THEN Continue
    ELSE IF path = "/sign-in/anonymous" THEN Unauthorized
    ELSE IF identifierOf(path, body) = "" THEN Unauthorized
    ELSE [kind |-> "lookup"]

\* if (role !== TEACHER) throw UNAUTHORIZED
roleDecisionMutant(role) == Continue

roleDecision(role) == IF role # Teacher THEN Unauthorized ELSE Continue

\* await getUserRole(...), then the decision
hookAfterLookupMutant(exit) ==
    IF exit.exit = "Failure" THEN Continue ELSE roleDecision(exit.value)

hookAfterLookup(exit) ==
    IF exit.exit = "Failure" THEN Rejected(exit.error) ELSE roleDecision(exit.value)

\* what a findFirst for the request would return now
RoleNow(path, identifier) == getUserRoleCompute(db, path, identifier)

\* an update of the user's role (the column of auth.user.additionalFields)
DbSetRole(u, role) ==
    /\ db[u] # NoRow
    /\ IF db[u] = NoRow THEN FALSE ELSE db[u].role # role
    /\ db' = [db EXCEPT ![u].role = role]

HookSetRole(u, role) ==
    DbSetRole(u, role) /\ UNCHANGED <<clock, store, rlVars, cacheVars, notDb>>

\* a request reaches the hook and runs to its first await or its end
HookRequest(path, header, body) ==
    /\ hook.pc = "idle"
    /\ gos[HookCaller].pc = "idle"
    /\ LET pre == hookPrefix(path, header, body)
           h == [IdleHook EXCEPT !.path = path, !.header = header,
                                 !.identifier = identifierOf(path, body),
                                 !.reads = hook.reads]
       IN  IF pre.kind = "lookup"
           THEN /\ GosCall(HookCaller, CacheNs,
                           cacheKey(path, identifierOf(path, body)),
                           AUTH_GUARD_CACHE_TTL_MS)
                /\ hook' = [h EXCEPT !.pc = "lookup"]
           ELSE /\ hook' = [h EXCEPT !.pc = "done", !.out = pre,
                                     !.roleNow = RoleNow(path, identifierOf(path, body))]
                /\ UNCHANGED <<clock, store, cacheVars>>
    /\ UNCHANGED <<rlVars, notHook>>

\* the read of getOrSet, the store answering or failing
HookGet(ok) ==
    /\ hook.pc = "lookup"
    /\ GosGet(HookCaller, ok)
    /\ hook' = [hook EXCEPT !.cacheOk = @ /\ ok]
    /\ UNCHANGED <<rlVars, notHook>>

\* the compute effect: prisma.user.findFirst resolves (ok) or rejects
HookCompute(ok) ==
    /\ hook.pc = "lookup"
    /\ LET role == getUserRoleCompute(db, hook.path, hook.identifier)
       IN  /\ GosCompute(HookCaller, ok, role)
           /\ hook' = [hook EXCEPT
                         !.dbOk = ok, !.queried = TRUE,
                         !.reads = IF ok THEN @ \cup {role} ELSE @]
    /\ UNCHANGED <<rlVars, notHook>>

\* the write of getOrSet
HookSet(ok) ==
    /\ hook.pc = "lookup"
    /\ GosSet(HookCaller, ok)
    /\ hook' = [hook EXCEPT !.cacheOk = @ /\ ok]
    /\ UNCHANGED <<rlVars, notHook>>

\* getUserRole settles and the hook decides
HookDecide ==
    /\ hook.pc = "lookup"
    /\ gos[HookCaller].pc = "done"
    /\ hook' = [hook EXCEPT !.pc = "done",
                            !.out = hookAfterLookup(gos[HookCaller].out),
                            !.roleNow = RoleNow(hook.path, hook.identifier)]
    /\ UNCHANGED <<clock, store, rlVars, cacheVars, notHook>>

\* better-auth goes on with the request, or answers with the error
HookDone ==
    /\ hook.pc = "done"
    /\ IF gos[HookCaller].pc = "done" THEN GosReturn(HookCaller)
       ELSE UNCHANGED <<clock, store, cacheVars>>
    /\ hook' = [IdleHook EXCEPT !.reads = hook.reads]
    /\ UNCHANGED <<rlVars, notHook>>

NextHook ==
    \/ GuardTick
    \/ \E u \in Users, role \in USER_ROLE : GuardCreateUser(u, role)
    \/ \E u \in Users, role \in USER_ROLE : HookSetRole(u, role)
    \/ \E path \in HookPaths, header \in HookHeaders, body \in HookBodies :
          HookRequest(path, header, body)
    \/ \E ok \in BOOLEAN : HookGet(ok)
    \/ \E ok \in BOOLEAN : HookCompute(ok)
    \/ \E ok \in BOOLEAN : HookSet(ok)
    \/ HookDecide
    \/ HookDone

SpecHook == InitRL /\ [][NextHook]_vars

\* the request in the hook is a back-office sign-in by email or username
BackOfficeSignIn ==
    /\ hook.path \in {"/sign-in/email", "/sign-in/username"}
    /\ hook.header = "client"

\* C21 as stated: a back-office sign-in by email or username continues only
\* if the user identified by the submitted identifier currently has role
\* TEACHER, and is answered UNAUTHORIZED if the identifier is missing, no
\* such user exists or the role is another; no other request is blocked.
C21_AsStated ==
    hook.pc = "done" =>
      IF BackOfficeSignIn
      THEN /\ hook.out = Continue => hook.roleNow = Teacher
           /\ (hook.identifier = "" \/ hook.roleNow # Teacher) => hook.out = Unauthorized
      ELSE hook.out = Continue

\* C21: a back-office sign-in by email or username continues only if the
\* role lookup for the submitted identifier (a database read, or the result
\* of an earlier one held in the cache) gave role TEACHER, and is answered
\* UNAUTHORIZED if the identifier is missing or the lookup gave no user or
\* another role; no other request is blocked.
C21_TeacherByLookup ==
    hook.pc = "done" =>
      IF BackOfficeSignIn
      THEN IF hook.identifier = "" THEN hook.out = Unauthorized
           ELSE LET exit == gos[HookCaller].out
                IN  exit.exit = "Success" =>
                      /\ exit.value \in hook.reads
                      /\ hook.out = Continue <=> exit.value = Teacher
                      /\ exit.value # Teacher => hook.out = Unauthorized
      ELSE hook.out = Continue

\* a back-office sign-in continues on a cached role
C21_Witness ==
    /\ hook.pc = "done"
    /\ BackOfficeSignIn
    /\ hook.out = Continue
    /\ ~hook.queried
    /\ gos[HookCaller].out = Success(Teacher)

\* C22 as stated: a back-office request to /sign-in/anonymous is rejected
\* by the before-hook with UNAUTHORIZED ('Only teachers can access the back
\* office.').
C22_AsStated ==
    (hook.pc = "done" /\ hook.path = "/sign-in/anonymous" /\ hook.header = "client")
        => hook.out = Unauthorized

\* C26: when the database read of the role lookup fails on a cache miss the
\* hook ends with that error and the sign-in does not continue; when only
\* the cache store fails the database is queried and its answer decides.
C26_FailsClosed ==
    (hook.pc = "done" /\ BackOfficeSignIn /\ hook.identifier # "") =>
      /\ ~hook.dbOk => /\ hook.queried
                       /\ hook.out = Rejected(ComputeError)
                       /\ hook.out # Continue
      /\ (hook.dbOk /\ ~hook.cacheOk) =>
            /\ hook.queried
            /\ gos[HookCaller].out = Success(gos[HookCaller].value)
            /\ hook.out = roleDecision(gos[HookCaller].value)

\* the database read failed after a cache miss and the hook threw
C26_Witness ==
    /\ hook.pc = "done"
    /\ BackOfficeSignIn
    /\ hook.cacheOk
    /\ ~hook.dbOk
    /\ hook.out.kind = "error"

\* ------------------------------------------------------------ SpecProxy
\* proxy(request) of the client application and the matcher that selects the
\* requests it runs for. Paths and query strings are sequences of their
\* parts, so that startsWith and the encoding of a parameter are computed.
Slash == "/"

SIGN_IN == <<Slash, "sign-in">>

TERMS_OF_SERVICE == <<Slash, "terms-of-service">>

ProxyPaths ==
    {<<Slash>>, <<Slash, "dashboard">>, <<Slash, "users", Slash, "sign-in">>,
     SIGN_IN, SIGN_IN \o <<Slash, "forgot">>, SIGN_IN \o <<"sider">>,
     TERMS_OF_SERVICE, <<Slash, "terms">>,
     <<Slash, "api", Slash, "health">>, <<Slash, "api", "ary">>,
     <<Slash, "_next/static", Slash, "app.js">>, <<Slash, "favicon.ico">>}

ProxySearches ==
    {<< >>, <<"?", "a", "=", "1">>, <<"?", "a", "=", "1", "&", "b", "=", "2">>}

\* the cookies of a request, by name
SessionCookieName(prefix) == <<prefix, ".session_token">>

ProxyCookies ==
    {{}, {SessionCookieName("app")}, {SessionCookieName("better-auth")}}

\* config.matcher: '/((?!api|_next/static|_next/image|favicon.ico).*)'
matcher(pathname) ==
    /\ pathname[1] = Slash
    /\ \A x \in {"api", "_next/static", "_next/image", "favicon.ico"} :
          ~HasPrefix(Tail(pathname), <<x>>)

\* getSessionCookie(request, { cookiePrefix }): the cookie's value or null
getSessionCookie(cookies, cookiePrefix) ==
    IF SessionCookieName(cookiePrefix) \in cookies THEN [value |-> "token"] ELSE Null

\* URLSearchParams writes a value percent-encoded and reads it decoded
encodePart(c) ==
    CASE c = "/" -> "%2F" [] c = "?" -> "%3F" [] c = "=" -> "%3D"
      [] c = "&" -> "%26" [] OTHER -> c

decodePart(c) ==
    CASE c = "%2F" -> "/" [] c = "%3F" -> "?" [] c = "%3D" -> "="
      [] c = "%26" -> "&" [] OTHER -> c

encodeValueMutant(s) == s

encodeValue(s) == [i \in 1..Len(s) |-> encodePart(s[i])]

decodeValue(s) == [i \in 1..Len(s) |-> decodePart(s[i])]

\* the length of the first parameter of a query (without its '?')
RECURSIVE ParamLen(_)
ParamLen(q) ==
    IF q = << >> THEN 0
    ELSE IF Head(q) = "&" THEN 0
    ELSE 1 + ParamLen(Tail(q))

\* url.searchParams.get(name): the value, or null
RECURSIVE paramOf(_, _)
paramOf(q, name) ==
    IF q = << >> THEN Null
    ELSE LET n == ParamLen(q)
             first == SubSeq(q, 1, n)
             rest == SubSeq(q, n + 2, Len(q))
         IN  IF n >= 2 /\ HasPrefix(first, <<name, "=">>)
             THEN [value |-> decodeValue(SubSeq(first, 3, n))]
             ELSE paramOf(rest, name)

searchParamsGet(search, name) ==
    IF search = << >> THEN Null ELSE paramOf(Tail(search), name)

\* signInUrl = new URL('/sign-in', request.url);
\* signInUrl.searchParams.set('returnTo', returnTo)
signInUrl(returnTo) ==
    [pathname |-> SIGN_IN,
     search |-> <<"?", "returnTo", "=">> \o encodeValue(returnTo)]

PassNext == [kind |-> "next"]

Redirect(url) == [kind |-> "redirect", url |-> url]

isPublicPath(pathname) ==
    HasPrefix(pathname, SIGN_IN) \/ HasPrefix(pathname, TERMS_OF_SERVICE)

\* proxy(request)
proxy(pathname, search, cookies) ==
    IF isPublicPath(pathname) THEN PassNext
    ELSE IF getSessionCookie(cookies, "app") = Null
    THEN Redirect(signInUrl(pathname \o search))
    ELSE PassNext

PxOnly(p) ==
    /\ px' = p
    /\ UNCHANGED <<clock, store, rlVars, cacheVars, notPx>>

\* a request arrives: the proxy runs if the matcher selects the path
ProxyRequest(pathname, search, cookies) ==
    /\ px.pc = "idle"
    /\ PxOnly([IdleProxy EXCEPT
                 !.pc = "answered", !.pathname = pathname, !.search = search,
                 !.cookies = cookies, !.ran = matcher(pathname),
                 !.resp = IF matcher(pathname) THEN proxy(pathname, search, cookies)
                          ELSE PassNext])

\* the browser follows the redirect with the same cookies
ProxyFollow ==
    /\ px.pc = "answered"
    /\ px.resp.kind = "redirect"
    /\ LET url == px.resp.url
       IN  PxOnly([px EXCEPT
                 !.pathname = url.pathname, !.search = url.search,
                 !.followed = TRUE, !.ran = matcher(url.pathname),
                 !.resp = IF matcher(url.pathname)
                          THEN proxy(url.pathname, url.search, px.cookies)
                          ELSE PassNext])

\* the page is rendered
ProxyDone ==
    /\ px.pc = "answered"
    /\ px.resp.kind = "next"
    /\ PxOnly(IdleProxy)

NextProxy ==
    \/ \E pathname \in ProxyPaths, search \in ProxySearches, cookies \in ProxyCookies :
          ProxyRequest(pathname, search, cookies)
    \/ ProxyFollow
    \/ ProxyDone

SpecProxy == InitRL /\ [][NextProxy]_vars

\* what the claim says the answer to the request is
ProxyAnswerIs(pathname, search, cookies, resp) ==
    IF isPublicPath(pathname) THEN resp = PassNext
    ELSE IF SessionCookieName("app") \in cookies THEN resp = PassNext
    ELSE /\ resp.kind = "redirect"
         /\ resp.url.pathname = SIGN_IN
         /\ searchParamsGet(resp.url.search, "returnTo") = [value |-> pathname \o search]

MaxApiCalls == 3

RfKinds == {"client", "server"}

\* getCookies of the server client: absent, an async function, or a
\* synchronous one
RfGetCookies == {"none", "async", "sync"}

refreshTokenEndpoint == "/auth/refresh-token"

RfUrls == {"/users", refreshTokenEndpoint, "/v2/auth/refresh-token/status"}

\* originalRequest.url?.includes(refreshTokenEndpoint)
urlIncludesRefresh(url) ==
    url \in {refreshTokenEndpoint, "/v2/auth/refresh-token/status"}

\* what a request can be answered with other than success; status 0: no
\* response
RfErrors ==
    [axios : {TRUE}, status : {401, 500, 0}] \cup {[axios |-> FALSE, status |-> 0]}

RfRejected(e) == [kind |-> "rejected", error |-> e]

RefreshError == [axios |-> TRUE, status |-> 401, from |-> "refresh"]

CookiesError == [axios |-> FALSE, status |-> 0, from |-> "getCookies"]

\* the first tests of handleRefreshToken: reject without a refresh
rejectsAtOnceMutant(error, request) ==
    \/ ~error.axios
    \/ error.status # 401
    \/ urlIncludesRefresh(request.url)

rejectsAtOnce(error, request) ==
    \/ ~error.axios
    \/ error.status # 401
    \/ request.isRetry
    \/ urlIncludesRefresh(request.url)

RfReq(r) == rf.req[r]

\* the refresh behind the marker settles: finally clears the marker, and
\* every request awaiting the promise goes on, re-sent or rejected
refreshSettled(s, ok, e) ==
    [s EXCEPT
       !.marker = "null",
       !.refresh = "none",
       !.req = [r \in RfSlots |->
                  IF s.req[r].pc # "waiting" THEN s.req[r]
                  ELSE IF ok
                  THEN [s.req[r] EXCEPT !.pc = "sent", !.isRetry = TRUE, !.sends = @ + 1]
                  ELSE [s.req[r] EXCEPT !.pc = "done", !.out = RfRejected(e)]]]

\* the refresh POST leaves
postSent(s) == [s EXCEPT !.refresh = "post", !.inflight = @ + 1]

\* if (!refreshPromise) refreshPromise = (async () => { ... })();
\* await refreshPromise. cookies: what a synchronous getCookies does.
onUnauthorized(s, r, cookies) ==
    IF s.marker = "pending"
    THEN [s EXCEPT !.req[r].pc = "waiting", !.req[r].waitsOn = s.id]
    ELSE IF s.marker = "rejected"
    THEN [s EXCEPT !.req[r].pc = "done", !.req[r].out = RfRejected(CookiesError)]
    ELSE LET started == [s EXCEPT !.id = @ + 1, !.marker = "pending",
                                  !.req[r].pc = "waiting", !.req[r].waitsOn = s.id + 1]
         IN  IF s.kind = "client" \/ s.getCookies = "none" THEN postSent(started)
             ELSE IF s.getCookies = "async" THEN [started EXCEPT !.refresh = "cookies"]
             ELSE IF cookies = "ok" THEN postSent(started)
             \* getCookies throws before the first await: finally runs, the
             \* function returns a rejected promise, and that is assigned
             ELSE [s EXCEPT !.id = @ + 1, !.marker = "rejected",
                            !.req[r].pc = "done",
                            !.req[r].out = RfRejected(CookiesError)]

RfOnly(s) ==
    /\ rf' = s
    /\ UNCHANGED <<clock, store, rlVars, cacheVars, notRf>>

\* useApiClient / createApiClient sets the interceptors up, once
RfCreate(kind, getCookies) ==
    /\ rf.kind = "none"
    /\ kind = "client" => getCookies = "none"
    /\ RfOnly([rf EXCEPT !.kind = kind, !.getCookies = getCookies])

\* a request is sent through the instance
RfSend(r, url) ==
    /\ rf.kind # "none"
    /\ RfReq(r).pc = "idle"
    /\ rf.nsent < MaxApiCalls
    /\ RfOnly([rf EXCEPT !.nsent = @ + 1,
                         !.req[r] = [IdleRfReq EXCEPT !.pc = "sent", !.url = url,
                                                      !.sends = 1]])

\* the request is answered with success
RfSucceed(r) ==
    /\ RfReq(r).pc = "sent"
    /\ RfOnly([rf EXCEPT !.req[r].pc = "done",
                         !.req[r].out = [kind |-> "response", status |-> 200]])

\* the request fails: handleRefreshToken up to its await
RfFail(r, error, cookies) ==
    /\ RfReq(r).pc = "sent"
    /\ RfOnly(IF rejectsAtOnce(error, RfReq(r))
              THEN [rf EXCEPT !.req[r].pc = "done", !.req[r].out = RfRejected(error)]
              ELSE onUnauthorized(rf, r, cookies))

\* the asynchronous getCookies of the refresh settles
RfCookies(ok) ==
    /\ rf.refresh = "cookies"
    /\ RfOnly(IF ok THEN postSent(rf) ELSE refreshSettled(rf, FALSE, CookiesError))

\* the refresh POST settles
RfRefreshSettle(ok) ==
    /\ rf.refresh = "post"
    /\ RfOnly(refreshSettled([rf EXCEPT !.inflight = @ - 1], ok, RefreshError))

\* the caller has the outcome
RfReturn(r) ==
    /\ RfReq(r).pc = "done"
    /\ RfOnly([rf EXCEPT !.req[r] = IdleRfReq])

NextRefresh ==
    \/ \E kind \in RfKinds, getCookies \in RfGetCookies : RfCreate(kind, getCookies)
    \/ \E r \in RfSlots, url \in RfUrls : RfSend(r, url)
    \/ \E r \in RfSlots : RfSucceed(r)
    \/ \E r \in RfSlots, error \in RfErrors, cookies \in {"ok", "throws"} :
          RfFail(r, error, cookies)
    \/ \E ok \in BOOLEAN : RfCookies(ok)
    \/ \E ok \in BOOLEAN : RfRefreshSettle(ok)
    \/ \E r \in RfSlots : RfReturn(r)

SpecRefresh == InitRL /\ [][NextRefresh]_vars

\* C24 as stated: at most one refresh request is in flight per axios
\* instance; while a refresh is pending every further 401 waits on that same
\* refresh; once the refresh has settled, with success or failure, the
\* pending marker is cleared (so that a later 401 can start a new refresh).
C24_AsStated ==
    /\ rf.inflight <= 1
    /\ \A r \in RfSlots :
          RfReq(r).pc = "waiting" => rf.marker = "pending" /\ RfReq(r).waitsOn = rf.id
    /\ rf.refresh = "none" => rf.marker = "null"

\* C25: a request is re-sent at most once after a 401: every request is
\* sent at most twice, the second time marked as a retry, and a request that
\* is marked as a retry or goes to the refresh endpoint and fails is rejected
\* without a refresh being started or awaited.
C25_AtMostOneRetry ==
    /\ [](\A r \in RfSlots :
            /\ RfReq(r).sends <= 2
            /\ RfReq(r).sends = 2 <=> RfReq(r).isRetry)
    /\ [][\A r \in RfSlots :
            (/\ RfReq(r).pc = "sent"
             /\ RfReq(r)'.pc # "sent"
             /\ RfReq(r).isRetry \/ urlIncludesRefresh(RfReq(r).url))
            => /\ RfReq(r)'.pc = "done"
               /\ rf'.id = rf.id
               /\ rf'.marker = rf.marker
               /\ rf'.inflight = rf.inflight]_vars

\* a request re-sent after a refresh was answered 401 again and rejected
C25_Witness ==
    \E r \in RfSlots :
      /\ RfReq(r).pc = "done"
      /\ RfReq(r).isRetry
      /\ RfReq(r).sends = 2
      /\ RfReq(r).out = RfRejected([axios |-> TRUE, status |-> 401])
      /\ rf.marker = "null"

\* ------------------------------------------------------------ SpecIp
\* extractClientIpAddress over the headers of a request. A header value is
\* the sequence of its comma-separated entries, trimmed; an absent or empty
\* header is the empty sequence.
MaxEntries == 2

IP_HEADERS ==
    <<"cf-connecting-ip", "x-forwarded-for", "x-real-ip", "x-client-ip",
      "true-client-ip", "x-original-forwarded-for", "fastly-client-ip",
      "x-cluster-client-ip", "x-forwarded", "forwarded-for", "forwarded",
      "appengine-user-ip", "cf-pseudo-ipv4", "fly-client-ip">>

V4(a, b, c, d) == [kind |-> "v4", a |-> <<a, b, c, d>>]

PublicA == V4(8, 8, 8, 8)
PublicB == [kind |-> "v6", a |-> <<8193, 3512, 0, 0, 0, 0, 0, 1>>]
PrivateA == V4(10, 0, 0, 1)
Loopback6 == [kind |-> "short", a |-> <<1>>]
NotAnIp == V4(256, 1, 1, 1)

IpEntries == {PublicA, PublicB, PrivateA, Loopback6, NotAnIp}

\* ipv4Schema, ipv6Schema
isValidIpAddress(x) ==
    CASE x.kind = "v4" -> \A i \in 1..4 : x.a[i] \in 0..255
      [] x.kind = "v6" -> \A i \in 1..8 : x.a[i] \in 0..65535
      [] x.kind = "short" -> TRUE
      [] OTHER -> FALSE

\* isPrivateIp: the prefixes 10., 192.168., 172.16-31., 127., 169.254.,
\* ::1, fc00:, fd00:, fe80:
isPrivateIp(x) ==
    CASE x.kind = "v4" ->
           \/ x.a[1] = 10
           \/ x.a[1] = 192 /\ x.a[2] = 168
           \/ x.a[1] = 172 /\ x.a[2] \in 16..31
           \/ x.a[1] = 127
           \/ x.a[1] = 169 /\ x.a[2] = 254
      [] x.kind = "v6" -> x.a[1] \in {64512, 64768, 65152}
      [] x.kind = "short" -> x.a = <<1>>
      [] OTHER -> FALSE

\* the inner loop of a scan: the first entry of ips from position i on that
\* passes, or undefined
RECURSIVE firstIn(_, _, _)
firstIn(ips, i, publicOnly) ==
    IF i > Len(ips) THEN Undefined
    ELSE IF isValidIpAddress(ips[i]) /\ (publicOnly => ~isPrivateIp(ips[i]))
    THEN ips[i]
    ELSE firstIn(ips, i + 1, publicOnly)

\* the outer loop over IP_HEADERS from position h on
RECURSIVE scanHeaders(_, _, _)
scanHeaders(headers, h, publicOnly) ==
    IF h > Len(IP_HEADERS) THEN Undefined
    ELSE LET found == firstIn(headers[IP_HEADERS[h]], 1, publicOnly)
         IN  IF found # Undefined THEN found
             ELSE scanHeaders(headers, h + 1, publicOnly)

extractPublicIp(headers) == scanHeaders(headers, 1, TRUE)

extractAnyValidIp(headers) == scanHeaders(headers, 1, FALSE)

extractClientIpAddressMutant(headers) == extractAnyValidIp(headers)

extractClientIpAddress(headers) ==
    LET publicIp == extractPublicIp(headers)
    IN  IF publicIp # Undefined THEN publicIp ELSE extractAnyValidIp(headers)

\* the header values of the requests
EntryLists == UNION {[1..n -> IpEntries] : n \in 0..MaxEntries}

NoHeaders == [n \in {IP_HEADERS[h] : h \in 1..Len(IP_HEADERS)} |-> << >>]

IpHeaderSets ==
    {[NoHeaders EXCEPT !["cf-connecting-ip"] = <<c>>,
                       !["x-forwarded-for"] = f,
                       !["x-real-ip"] = r] :
        c \in {PublicB, PrivateA, NotAnIp}, f \in EntryLists,
        r \in {<< >>} \cup {<<e>> : e \in IpEntries}}
    \cup {[NoHeaders EXCEPT !["x-forwarded-for"] = f, !["fly-client-ip"] = r] :
            f \in EntryLists, r \in {<< >>} \cup {<<e>> : e \in IpEntries}}

IpOnly(s) ==
    /\ ip' = s
    /\ UNCHANGED <<clock, store, rlVars, cacheVars, notIp>>

\* extractClientIpAddress(request.headers)
IpExtract(headers) ==
    /\ ip.pc = "idle"
    /\ IpOnly([ip EXCEPT !.pc = "extracted", !.headers = headers,
                         !.out = extractClientIpAddress(headers)])

IpForget ==
    /\ ip.pc = "extracted"
    /\ IpOnly(IdleIp)

NextIp ==
    \/ \E headers \in IpHeaderSets : IpExtract(headers)
    \/ IpForget

SpecIp == InitRL /\ [][NextIp]_vars

\* the positions of a scan, in its order: header h of IP_HEADERS, entry i
ScanPositions(headers) ==
    {<<h, i>> \in (1..Len(IP_HEADERS)) \X (1..MaxEntries) :
        i <= Len(headers[IP_HEADERS[h]])}

ScanBefore(p, q) == p[1] < q[1] \/ (p[1] = q[1] /\ p[2] < q[2])

EntryAt(headers, p) == headers[IP_HEADERS[p[1]]][p[2]]

\* x is the first entry of the scan that is a valid address, public if asked
IsFirst(headers, x, publicOnly) ==
    LET good(p) == /\ isValidIpAddress(EntryAt(headers, p))
                   /\ publicOnly => ~isPrivateIp(EntryAt(headers, p))
    IN  \E p \in ScanPositions(headers) :
          /\ good(p)
          /\ EntryAt(headers, p) = x
          /\ \A q \in ScanPositions(headers) : ScanBefore(q, p) => ~good(q)

HoldsSome(headers, publicOnly) ==
    \E p \in ScanPositions(headers) :
       /\ isValidIpAddress(EntryAt(headers, p))
       /\ publicOnly => ~isPrivateIp(EntryAt(headers, p))

CipProc == "r1"

Mapped(x) == [kind |-> "mapped", a |-> x.a]

CipSockets == {Null, EmptyText, PublicA, Loopback6, Mapped(PrivateA)}

CipHeaderSets ==
    {NoHeaders,
     [NoHeaders EXCEPT !["cf-connecting-ip"] = <<PublicB>>],
     [NoHeaders EXCEPT !["x-forwarded-for"] = <<PrivateA, PublicA>>],
     [NoHeaders EXCEPT !["x-real-ip"] = <<Loopback6>>],
     [NoHeaders EXCEPT !["x-forwarded-for"] = <<PublicB>>,
                       !["x-real-ip"] = <<PrivateA>>]}

Unknown == [kind |-> "unknown", a |-> << >>]

\* a || b on strings and null
OrElse(x, y) == IF x = Null \/ x = Undefined \/ x = EmptyText THEN y ELSE x

normalizeIpAddress(x) ==
    IF x.kind = "mapped" THEN [kind |-> "v4", a |-> x.a]
    ELSE IF x.kind = "short" THEN V4(127, 0, 0, 1)
    ELSE x

\* server?.requestIP(request)?.address || extractIpAddress
rawIpMutant(socket, extractIpAddress) == OrElse(extractIpAddress, OrElse(socket, EmptyText))

rawIp(socket, extractIpAddress) == OrElse(socket, extractIpAddress)

\* the derive of clientIpPlugin
clientIpAddress(headers, socket) ==
    LET extractIpAddress == OrElse(extractClientIpAddress(headers), EmptyText)
    IN  normalizeIpAddress(rawIp(socket, extractIpAddress))

\* key = clientIpAddress || 'unknown'
rateLimitKey(headers, socket) == OrElse(clientIpAddress(headers, socket), Unknown)

\* a request arrives: the derive, then the rate limiter starts counting
CipRequest(headers, socket) ==
    /\ ip.pc = "idle"
    /\ nreq < MaxRequests
    /\ RLBegin(CipProc, rateLimitKey(headers, socket))
    /\ ip' = [ip EXCEPT !.pc = "counting", !.headers = headers, !.socket = socket,
                        !.key = rateLimitKey(headers, socket),
                        !.keys = @ \cup {<<socket, headers, rateLimitKey(headers, socket)>>}]
    /\ UNCHANGED <<windows, hist, cacheVars, notIp>>

CipRead == RLRead(CipProc, TRUE) /\ UNCHANGED <<windows, hist, cacheVars, appVars>>

CipWrite == RLWrite(CipProc, TRUE) /\ UNCHANGED <<windows, hist, cacheVars, appVars>>

CipDecide == RLDecide(CipProc) /\ UNCHANGED <<windows, hist, cacheVars, appVars>>

CipDone ==
    /\ RLDone(CipProc)
    /\ ip' = [IdleIp EXCEPT !.keys = ip.keys]
    /\ UNCHANGED <<windows, hist, cacheVars, notIp>>

NextClientIp ==
    \/ \E headers \in CipHeaderSets, socket \in CipSockets : CipRequest(headers, socket)
    \/ CipRead
    \/ CipWrite
    \/ CipDecide
    \/ CipDone

SpecClientIp == InitRL /\ [][NextClientIp]_vars

SocketReported(socket) == socket # Null /\ socket # EmptyText

\* the requests so far that came from socket address s
FromSocket(s) == {e \in ip.keys : e[1] = s}

\* C28: when the server reports a socket address the rate-limit key is
\* derived from it alone: requests from one socket address that differ in
\* their forwarding headers are counted under one key.
C28_KeyFromSocket ==
    /\ \A e \in ip.keys, f \in ip.keys :
          (SocketReported(e[1]) /\ e[1] = f[1]) => e[3] = f[3]
    /\ (req[CipProc].pc = "decide" /\ SocketReported(ip.socket)) =>
          /\ req[CipProc].key = ip.key
          /\ req[CipProc].result.count >= Cardinality(FromSocket(ip.socket))

\* two requests from one socket address with different forwarding headers:
\* the second is counted as the second of its key
C28_Witness ==
    /\ req[CipProc].pc = "decide"
    /\ ip.socket = PublicA
    /\ Cardinality(FromSocket(PublicA)) = 2
    /\ Cardinality(ip.keys) = 2
    /\ req[CipProc].result.count = 2

====
